---- MODULE Spec2Model ----
(***************************************************************************)
(* AyresWiFiManager: the provisioning state machine of                     *)
(* src/src/AyresWiFiManager.cpp (portal lifecycle and inactivity timer,    *)
(* startup decision cycle run(), reconnection driver, LED state machine).  *)
(*                                                                         *)
(* The manager object, the radio driver, the file store, the pins and the  *)
(* millisecond clock are the fields of one record, the "world"; every C++  *)
(* method is an operator from world to world, so that a method calling     *)
(* another is the composition of the two.  The module's variables are the  *)
(* fields of that record; an action applies one entry point of the class   *)
(* to the current world.                                                   *)
(*                                                                         *)
(* Times are milliseconds of millis().  The clock stays far below 2^32 in  *)
(* every specification, so the unsigned differences millis() - x of the    *)
(* code equal the integer differences written here.                        *)
(***************************************************************************)
EXTENDS Integers, Sequences, FiniteSets, TLC

VARIABLES
  \* ---- AyresWiFiManager data members (AyresWiFiManager.h 212-275)
  ssid, password,
  portalActive, dnsRunning,
  captiveEnabled, portalTimeoutMs, apClientCheck, webClientCheck,
  portalStart, lastHttpAccess,
  fallbackPolicy, allowButtonPortal, maxFailRetries, failWindowMs,
  failCount, failWindowStart,
  connected, autoReconnect, ultimoIntentoWiFi,
  scanning, scanningUntil,
  ledAuto, ledPat, ledOut, ledStep, ledT0,
  reconnectBackoffMs, reconnectAttemptMs, externalApActive,
  protectedExact, \* _protectedExact: the protected names, as stored by setProtectedJsons
  \* ---- locals of run() that live across its polling loops
  startTime, t0,
  \* ---- the device around the manager
  now,          \* millis()
  wifiMode,     \* radio mode last set: "OFF", "STA", "AP", "AP_STA"
  apUp,         \* the SoftAP is broadcasting
  serverUp,     \* the HTTP server is listening
  captiveRoutes,\* the captive-detection routes are registered with the HTTP server
  platform,     \* the build: "ESP32" or "ESP8266"
  files,        \* paths of the files in LittleFS other than /wifi.json
  netUp,        \* the network is in reach and stays so: every association completes
  beginIssued,  \* WiFi.begin() has been called since boot
  linkUp,       \* WiFi.status() == WL_CONNECTED
  wifiJson,     \* /wifi.json in LittleFS: "absent" or "valid"
  ledPin,       \* level last written to the LED pin
  btnFrom, btnTo, \* the button reads LOW at times t with btnFrom <= t < btnTo
  \* ---- the host sketch
  pc,           \* "setup", "ready", "arming", "hold", "connect", "loop", "restarted"
  \* ---- observations (history of the calls made, not program state)
  reopened,     \* openPortal() was called on an active portal after the clock had
                \* advanced past portalStart, in the current portal session
  lastActivity, \* latest of: portal open, tick with an AP client (apClientCheck),
                \* HTTP request served by a handler (webClientCheck)
  \* of the last run(), connectToWiFi(), reintentarConexionSiNecesario() or
  \* forzarReconexion():
  nBegin,       \* WiFi.begin() calls it made
  nStartPortal, \* startPortal() calls it made
  nAttempt,     \* attempts issued by it, if it was reintentarConexionSiNecesario()
  beginNoCred,  \* it called WiFi.begin(), or selected a station mode, with ssid or
                \* password empty
  lastAttemptAt,\* start of the last attempt of reintentarConexionSiNecesario(), -1: none
  skipped,      \* reintentarConexionSiNecesario() has returned at its backoff check
                \* since that attempt
  streak,       \* failed attempts of reintentarConexionSiNecesario() since boot or
                \* since its last successful attempt
  streakT0,     \* time at which the first failure of the streak was recorded
  outcome,      \* what the button gesture of run() caused: "none", "portal", "erase"
  heldMs,       \* hold duration measured by run() when the hold loop ended
  passes,       \* passes of loop() completed since run() returned
  reqAt,        \* time at which the last HTTP request reached the server of an
                \* active portal, -1: none
  givenNames,   \* names passed to the last setProtectedJsons call
  mediumFlip,   \* the LED pin changed level on a pass of the hold loop of run() made
                \* with 2000 <= held < 5000
  redundantWrite, \* digitalWrite was issued on the LED pin with the level the pin
                \* already had
  selectedAt,   \* time of the last ledSet() call, i.e. of the last pattern selection
  lastArg,      \* argument of the last setReconnectBackoffMs / setReconnectAttemptMs
                \* call, -1: none
  ticked        \* update() has run since the clock last advanced, and its last run
                \* counted no AP client (observed by the fair specification only)

vars ==
  << ssid, password, portalActive, dnsRunning, captiveEnabled, portalTimeoutMs,
     apClientCheck, webClientCheck, portalStart, lastHttpAccess, fallbackPolicy,
     allowButtonPortal, maxFailRetries, failWindowMs, failCount, failWindowStart,
     connected, autoReconnect, ultimoIntentoWiFi, scanning, scanningUntil, ledAuto,
     ledPat, ledOut, ledStep, ledT0, reconnectBackoffMs, reconnectAttemptMs,
     externalApActive, startTime, t0, now, wifiMode, apUp, serverUp, beginIssued,
     linkUp, wifiJson, ledPin, btnFrom, btnTo, pc, reopened, lastActivity, nBegin,
     nStartPortal, nAttempt, beginNoCred, lastAttemptAt, skipped, streak, streakT0,
     outcome, heldMs, passes, ticked, protectedExact, captiveRoutes, platform, files,
     netUp, reqAt, lastArg, givenNames, mediumFlip, redundantWrite,
     selectedAt >>

\* The current world.  The last fields are inputs of the call in progress: stations is
\* WiFi.softAPgetStationNum(); post and filled tell whether the pending HTTP request is
\* a POST and carries a non-empty ssid and password; scanMs is the time the blocking
\* WiFi.scanNetworks() takes; apOk is the result of WiFi.softAP(); nameIsPath tells
\* whether File::name() returns the full path (older cores) or the bare name.
Cur ==
  [ ssid |-> ssid, password |-> password, portalActive |-> portalActive,
    dnsRunning |-> dnsRunning, captiveEnabled |-> captiveEnabled,
    portalTimeoutMs |-> portalTimeoutMs, apClientCheck |-> apClientCheck,
    webClientCheck |-> webClientCheck, portalStart |-> portalStart,
    lastHttpAccess |-> lastHttpAccess, fallbackPolicy |-> fallbackPolicy,
    allowButtonPortal |-> allowButtonPortal, maxFailRetries |-> maxFailRetries,
    failWindowMs |-> failWindowMs, failCount |-> failCount,
    failWindowStart |-> failWindowStart, connected |-> connected,
    autoReconnect |-> autoReconnect, ultimoIntentoWiFi |-> ultimoIntentoWiFi,
    scanning |-> scanning, scanningUntil |-> scanningUntil, ledAuto |-> ledAuto,
    ledPat |-> ledPat, ledOut |-> ledOut, ledStep |-> ledStep, ledT0 |-> ledT0,
    reconnectBackoffMs |-> reconnectBackoffMs,
    reconnectAttemptMs |-> reconnectAttemptMs, externalApActive |-> externalApActive,
    startTime |-> startTime, t0 |-> t0, now |-> now, wifiMode |-> wifiMode,
    apUp |-> apUp, serverUp |-> serverUp, beginIssued |-> beginIssued,
    linkUp |-> linkUp, wifiJson |-> wifiJson, ledPin |-> ledPin, btnFrom |-> btnFrom,
    btnTo |-> btnTo, pc |-> pc, reopened |-> reopened, lastActivity |-> lastActivity,
    nBegin |-> nBegin, nStartPortal |-> nStartPortal, nAttempt |-> nAttempt,
    beginNoCred |-> beginNoCred, lastAttemptAt |-> lastAttemptAt, streak |-> streak,
    streakT0 |-> streakT0, skipped |-> skipped, outcome |-> outcome,
    heldMs |-> heldMs, passes |-> passes, ticked |-> ticked,
    protectedExact |-> protectedExact, captiveRoutes |-> captiveRoutes,
    platform |-> platform, files |-> files, netUp |-> netUp, reqAt |-> reqAt,
    lastArg |-> lastArg, givenNames |-> givenNames, mediumFlip |-> mediumFlip,
    redundantWrite |-> redundantWrite, selectedAt |-> selectedAt,
    stations |-> 0, post |-> FALSE, filled |-> FALSE, scanMs |-> 2000, apOk |-> TRUE,
    nameIsPath |-> FALSE ]

\* The next state is the world v.
Assign(v) ==
  /\ ssid' = v.ssid /\ password' = v.password /\ portalActive' = v.portalActive
  /\ dnsRunning' = v.dnsRunning /\ captiveEnabled' = v.captiveEnabled
  /\ portalTimeoutMs' = v.portalTimeoutMs /\ apClientCheck' = v.apClientCheck
  /\ webClientCheck' = v.webClientCheck /\ portalStart' = v.portalStart
  /\ lastHttpAccess' = v.lastHttpAccess /\ fallbackPolicy' = v.fallbackPolicy
  /\ allowButtonPortal' = v.allowButtonPortal /\ maxFailRetries' = v.maxFailRetries
  /\ failWindowMs' = v.failWindowMs /\ failCount' = v.failCount
  /\ failWindowStart' = v.failWindowStart /\ connected' = v.connected
  /\ autoReconnect' = v.autoReconnect /\ ultimoIntentoWiFi' = v.ultimoIntentoWiFi
  /\ scanning' = v.scanning /\ scanningUntil' = v.scanningUntil
  /\ ledAuto' = v.ledAuto /\ ledPat' = v.ledPat /\ ledOut' = v.ledOut
  /\ ledStep' = v.ledStep /\ ledT0' = v.ledT0
  /\ reconnectBackoffMs' = v.reconnectBackoffMs
  /\ reconnectAttemptMs' = v.reconnectAttemptMs
  /\ externalApActive' = v.externalApActive /\ startTime' = v.startTime
  /\ t0' = v.t0 /\ now' = v.now /\ wifiMode' = v.wifiMode /\ apUp' = v.apUp
  /\ serverUp' = v.serverUp /\ beginIssued' = v.beginIssued /\ linkUp' = v.linkUp
  /\ wifiJson' = v.wifiJson /\ ledPin' = v.ledPin /\ btnFrom' = v.btnFrom
  /\ btnTo' = v.btnTo /\ pc' = v.pc /\ reopened' = v.reopened
  /\ lastActivity' = v.lastActivity /\ nBegin' = v.nBegin
  /\ nStartPortal' = v.nStartPortal /\ nAttempt' = v.nAttempt
  /\ beginNoCred' = v.beginNoCred /\ lastAttemptAt' = v.lastAttemptAt
  /\ streak' = v.streak /\ streakT0' = v.streakT0 /\ skipped' = v.skipped
  /\ outcome' = v.outcome /\ heldMs' = v.heldMs /\ passes' = v.passes
  /\ ticked' = v.ticked /\ protectedExact' = v.protectedExact
  /\ captiveRoutes' = v.captiveRoutes /\ platform' = v.platform /\ files' = v.files
  /\ netUp' = v.netUp /\ reqAt' = v.reqAt /\ lastArg' = v.lastArg
  /\ givenNames' = v.givenNames /\ mediumFlip' = v.mediumFlip
  /\ redundantWrite' = v.redundantWrite /\ selectedAt' = v.selectedAt

\* The next state is the world w, evaluated once.
Commit(w) == \E v \in {w} : Assign(v)

\* ------------------------------------------------------------------ bounds
\* The clock of the portal specifications advances in steps of these sizes (ms): the
\* 10 ms cadence of loop() and a coarse step that reaches the timeouts.
PortalSteps == {10, 5000}
\* Number of coarse steps the clock of a specification may cover.
MaxCoarse == 8
\* Largest offset of the clock from a multiple of the coarse step, in 10 ms ticks.
MaxFine == 1
\* Portal timeouts the host may configure, in seconds (setPortalTimeout).
TimeoutSecs == {0, 30}

\* ------------------------------------------------------------- enumerations
LedPattern == {"OFF", "ON", "BLINK_SLOW", "BLINK_FAST", "BLINK_DOUBLE", "BLINK_TRIPLE"}
FallbackPolicy == {"ON_FAIL", "NO_CREDENTIALS_ONLY", "SMART_RETRIES", "BUTTON_ONLY", "NEVER"}
LOW == 0
HIGH == 1
\* The builds (#if defined(ESP32) ... #else: ESP8266).
Platforms == {"ESP32", "ESP8266"}

\* ------------------------------------------------------------- evaluation
\* The element of a singleton.  A method body is written  Only({ e(v) : v \in {w} }):
\* v is the method's argument w evaluated once, as a C++ call evaluates its object
\* before the body runs.
Only(S) == CHOOSE x \in S : TRUE

\* ------------------------------------------------------------- radio driver
\* WiFi.mode(m): the interfaces not in m are shut down.
WiFi_mode(w, m) ==
  Only({ [v EXCEPT !.wifiMode = m,
                   !.apUp = v.apUp /\ m \in {"AP", "AP_STA"},
                   !.linkUp = v.linkUp /\ m \in {"STA", "AP_STA"},
                   !.beginNoCred = v.beginNoCred
                      \/ (m \in {"STA", "AP_STA"} /\ (v.ssid = "" \/ v.password = ""))]
         : v \in {w} })

\* WiFi.softAP(ssid, pass): the access point starts broadcasting, unless the driver
\* fails to bring it up (apOk FALSE; the code does not read the result).
WiFi_softAP(w) == Only({ [v EXCEPT !.apUp = v.apOk] : v \in {w} })

\* WiFi.softAPdisconnect(true): the access point stops and its interface is disabled.
WiFi_softAPdisconnect(w) ==
  Only({ [v EXCEPT !.apUp = FALSE,
                   !.wifiMode = CASE v.wifiMode = "AP" -> "OFF"
                                  [] v.wifiMode = "AP_STA" -> "STA"
                                  [] OTHER -> v.wifiMode]
         : v \in {w} })

\* WiFi.begin(ssid, password): a new association starts; the link is down until it
\* completes.
WiFi_begin(w) ==
  Only({ [v EXCEPT !.beginIssued = TRUE, !.linkUp = FALSE, !.nBegin = v.nBegin + 1,
                   !.beginNoCred = v.beginNoCred \/ v.ssid = "" \/ v.password = ""]
         : v \in {w} })

\* ------------------------------------------------------------------ LED FSM
ledSet_KeepStep(w, p) ==
  Only({ [v EXCEPT !.ledPat = p, !.ledT0 = v.now, !.selectedAt = v.now] : v \in {w} })

ledSet(w, p) ==
  Only({ [v EXCEPT !.ledPat = p, !.ledStep = 0, !.ledT0 = v.now, !.selectedAt = v.now]
         : v \in {w} })

setLedAuto(w, enable) ==
  IF enable THEN ledSet([w EXCEPT !.ledAuto = TRUE], "OFF")
  ELSE [w EXCEPT !.ledAuto = FALSE]

setLedPatternManual(w, p) == ledSet([w EXCEPT !.ledAuto = FALSE], p)

\* The pattern ledAutoUpdate() wants in world v.
ledWant(v) ==
  IF v.scanning \/ v.now < v.scanningUntil THEN "BLINK_FAST"
  ELSE IF v.portalActive THEN "BLINK_SLOW"
  ELSE IF v.linkUp THEN "ON"
  ELSE "OFF"

ledAutoUpdate_AlwaysSet(w) ==
  Only({ IF ~v.ledAuto THEN v ELSE ledSet(v, ledWant(v)) : v \in {w} })

ledAutoUpdate(w) ==
  Only({ IF ~v.ledAuto THEN v
         ELSE IF ledWant(v) # v.ledPat THEN ledSet(v, ledWant(v)) ELSE v
         : v \in {w} })

\* digitalWrite(ledPin, lvl)
digitalWrite(w, lvl) ==
  Only({ [v EXCEPT !.ledPin = lvl, !.redundantWrite = @ \/ v.ledPin = lvl] : v \in {w} })

\* The lambda write of ledTask: the pin is written only when the level changes.
write_Always(w, lvl) == digitalWrite([w EXCEPT !.ledOut = lvl], lvl)

write(w, lvl) ==
  Only({ IF v.ledOut # lvl THEN digitalWrite([v EXCEPT !.ledOut = lvl], lvl) ELSE v
         : v \in {w} })

seqDouble == <<120, 120, 120, 640>>
onDouble == <<1, 0, 1, 0>>
seqTriple == <<100, 100, 100, 100, 100, 500>>
onTriple == <<1, 0, 1, 0, 1, 0>>

\* One step of a fixed step sequence (BLINK_DOUBLE, BLINK_TRIPLE); ledStep counts from 0.
ledSeqStep(w, seq, on) ==
  Only({ IF v.now - v.ledT0 >= seq[v.ledStep + 1]
         THEN write([v EXCEPT !.ledT0 = v.now, !.ledStep = (v.ledStep + 1) % Len(seq)],
                    IF on[((v.ledStep + 1) % Len(seq)) + 1] = 1 THEN HIGH ELSE LOW)
         ELSE v
         : v \in {w} })

ledTask(w) ==
  Only({ CASE v.ledPat = "OFF" -> write(v, LOW)
           [] v.ledPat = "ON" -> write(v, HIGH)
           [] v.ledPat = "BLINK_SLOW" ->
                write(v, IF ((v.now - v.ledT0) % 1000) < 500 THEN HIGH ELSE LOW)
           [] v.ledPat = "BLINK_FAST" ->
                write(v, IF ((v.now - v.ledT0) % 200) < 100 THEN HIGH ELSE LOW)
           [] v.ledPat = "BLINK_DOUBLE" -> ledSeqStep(v, seqDouble, onDouble)
           [] v.ledPat = "BLINK_TRIPLE" -> ledSeqStep(v, seqTriple, onTriple)
         : v \in {w} })

\* ------------------------------------------------------------- credentials
tieneCredenciales(w) == w.wifiJson # "absent" /\ w.ssid # "" /\ w.password # ""

loadCredentials(w) ==
  Only({ IF v.wifiJson = "valid" THEN [v EXCEPT !.ssid = "net", !.password = "key"] ELSE v
         : v \in {w} })

\* begin(): mounted is the result of LittleFS.begin().
begin(w, mounted) ==
  IF ~mounted THEN [w EXCEPT !.ledPin = LOW] ELSE loadCredentials([w EXCEPT !.ledPin = LOW])

\* ---------------------------------------------------------- the file store
\* A file name is the sequence of its characters.
JsonExt == <<".", "j", "s", "o", "n">>
WifiPath == <<"/", "w", "i", "f", "i">> \o JsonExt

\* String::startsWith, String::endsWith
startsWith(s, pre) == Len(s) >= Len(pre) /\ SubSeq(s, 1, Len(pre)) = pre
endsWith(s, suf) == Len(s) >= Len(suf) /\ SubSeq(s, Len(s) - Len(suf) + 1, Len(s)) = suf

\* tolower(), on the letters the names of the model are made of.
toLower(c) ==
  CASE c = "A" -> "a" [] c = "D" -> "d" [] c = "J" -> "j" [] c = "S" -> "s"
    [] c = "O" -> "o" [] c = "N" -> "n" [] OTHER -> c

\* String::equalsIgnoreCase
equalsIgnoreCase(a, b) ==
  Len(a) = Len(b) /\ \A i \in 1 .. Len(a) : toLower(a[i]) = toLower(b[i])

\* Lines 847 and 854: a name without a leading '/' gets one.
withSlash(s) == IF startsWith(s, <<"/">>) THEN s ELSE <<"/">> \o s

\* setProtectedJsons(names): empty names are skipped, the others stored with a
\* leading '/'.
keptNames(names) == SelectSeq(names, LAMBDA n : Len(n) > 0)

setProtectedJsons(w, names) ==
  [w EXCEPT !.protectedExact =
              [i \in 1 .. Len(keptNames(names)) |-> withSlash(keptNames(names)[i])]]

isProtectedJson(w, name) ==
  \E i \in 1 .. Len(w.protectedExact) :
    equalsIgnoreCase(withSlash(name), w.protectedExact[i])

\* The files of the store: those of files, and /wifi.json when present.
storedFiles(w) == w.files \cup (IF w.wifiJson # "absent" THEN {WifiPath} ELSE {})

\* LittleFS.remove(path) on a file of the store.
LittleFS_remove(w, path) ==
  IF path = WifiPath THEN [w EXCEPT !.wifiJson = "absent"]
  ELSE [w EXCEPT !.files = @ \ {path}]

\* The directory base (ending in '/') holds the file f, directly or deeper.
inDir(f, base) == Len(f) > Len(base) /\ SubSeq(f, 1, Len(base)) = base

\* The part of f below base, and its first segment.
below(f, base) == SubSeq(f, Len(base) + 1, Len(f))

firstSlash(s) == IF \E i \in 1 .. Len(s) : s[i] = "/"
                 THEN CHOOSE i \in 1 .. Len(s) : s[i] = "/" /\ \A j \in 1 .. (i - 1) : s[j] # "/"
                 ELSE 0

\* The entries a listing of base returns: its files, and its subdirectories (paths
\* ending in '/').
dirFiles(w, base) == { f \in storedFiles(w) : inDir(f, base) /\ firstSlash(below(f, base)) = 0 }

subDirs(w, base) ==
  { base \o SubSeq(below(f, base), 1, firstSlash(below(f, base)))
    : f \in { g \in storedFiles(w) : inDir(g, base) /\ firstSlash(below(g, base)) > 0 } }

\* File::name() / Dir::fileName() of the file f listed in base: the full path or the
\* bare name, depending on the core.
entryName(w, f, base) == IF w.nameIsPath THEN f ELSE below(f, base)

\* Lines 876-877, 904-905: the full path rebuilt from the entry's name.
fullOf(name, base) == IF startsWith(name, <<"/">>) THEN name ELSE base \o name

\* Lines 885-891, 907-913: one file entry of the listing.
eraseEntry(w, f, base) ==
  Only({ IF endsWith(full, JsonExt) /\ ~isProtectedJson(w, full)
         THEN LittleFS_remove(w, full) ELSE w
         : full \in {fullOf(entryName(w, f, base), base)} })

\* eraseJsonInDir(dirPath): the loop over the listing of base.  todoF and todoD are the
\* files and the subdirectories still to come.  The ESP32 build descends into the
\* subdirectories; the ESP8266 build sees a subdirectory as an entry whose name does
\* not end in ".json" (or that cannot be removed, not being empty) and passes it by.
RECURSIVE eraseLoop(_, _, _, _)
eraseLoop(w, base, todoF, todoD) ==
  IF todoF # {}
  THEN Only({ eraseLoop(eraseEntry(w, f, base), base, todoF \ {f}, todoD)
              : f \in {CHOOSE g \in todoF : TRUE} })
  ELSE IF todoD # {}
  THEN Only({ eraseLoop(IF w.platform = "ESP32"
                        THEN eraseLoop(w, d, dirFiles(w, d), subDirs(w, d))
                        ELSE w,
                        base, todoF, todoD \ {d})
              : d \in {CHOOSE e \in todoD : TRUE} })
  ELSE w

eraseJsonInDir(w, base) == eraseLoop(w, base, dirFiles(w, base), subDirs(w, base))

\* eraseCredentials(): the .json files under the root go, /wifi.json included, but
\* for the protected names.
eraseCredentials(w) == eraseJsonInDir(w, <<"/">>)

\* ------------------------------------------------------------- time and pins
\* delay(ms)
delay(w, ms) == Only({ [v EXCEPT !.now = v.now + ms, !.ticked = FALSE] : v \in {w} })

\* digitalRead(buttonPin): the button is active LOW.
digitalRead(w) == IF w.btnFrom <= w.now /\ w.now < w.btnTo THEN LOW ELSE HIGH

\* ------------------------------------------------------------ AP / DNS / HTTP
startDNS(w) == Only({ IF v.dnsRunning THEN v ELSE [v EXCEPT !.dnsRunning = TRUE] : v \in {w} })

stopDNS(w) == Only({ IF ~v.dnsRunning THEN v ELSE [v EXCEPT !.dnsRunning = FALSE] : v \in {w} })

setupAP(w) == WiFi_softAP(WiFi_mode(w, "AP"))

\* startPortal(), lines 316-317: the DNS catch-all follows captiveEnabled.
portalDNS(w) ==
  Only({ IF v.captiveEnabled THEN startDNS(v)
         ELSE IF v.dnsRunning THEN stopDNS(v) ELSE v
         : v \in {w} })

\* startPortal(), lines 319-321: the portal is marked active and both time bases start.
portalMark_KeepStamps(w) == [w EXCEPT !.portalActive = TRUE]

portalMark(w) ==
  Only({ [v EXCEPT !.portalActive = TRUE, !.portalStart = v.now,
                   !.lastHttpAccess = v.now, !.lastActivity = v.now]
         : v \in {w} })

\* setupHTTPRoutes(), lines 275-282: the captive-detection routes are registered when
\* captiveEnabled is set (a registered route stays registered).
setupHTTPRoutes(w) ==
  Only({ [v EXCEPT !.captiveRoutes = @ \/ v.captiveEnabled] : v \in {w} })

\* server.begin()
server_begin(w) == [w EXCEPT !.serverUp = TRUE]

\* startPortal() past its guard.
portalOpen(w) ==
  ledSet(portalMark(portalDNS(server_begin(setupHTTPRoutes(setupAP(w))))), "BLINK_SLOW")

startPortal_NoGuard(w) == portalOpen(w)

startPortal(w) == Only({ IF v.portalActive THEN v ELSE portalOpen(v) : v \in {w} })

\* stopPortal(), lines 346-349: the radio mode the portal leaves behind.
portalLeave(w) ==
  Only({ IF v.externalApActive THEN WiFi_mode(v, "AP")
         ELSE IF v.ssid # "" THEN WiFi_mode(v, "STA")
         ELSE WiFi_mode(v, "OFF")
         : v \in {w} })

\* stopPortal(), lines 336-338: the SoftAP goes down unless an external AP is active.
portalDropAP(w) ==
  Only({ IF ~v.externalApActive THEN WiFi_softAPdisconnect(v) ELSE v : v \in {w} })

stopPortal_DnsIfCaptive(w) ==
  Only({ IF ~v.portalActive THEN v
         ELSE portalLeave([portalDropAP([(IF v.captiveEnabled THEN stopDNS(v) ELSE v)
                                           EXCEPT !.serverUp = FALSE])
                             EXCEPT !.portalActive = FALSE, !.reopened = FALSE])
         : v \in {w} })

stopPortal(w) ==
  Only({ IF ~v.portalActive THEN v
         ELSE portalLeave([portalDropAP([stopDNS(v) EXCEPT !.serverUp = FALSE])
                             EXCEPT !.portalActive = FALSE, !.reopened = FALSE])
         : v \in {w} })

\* captivePortalRedirect(): TRUE when the request is answered by the redirect
\* (hostIsAp: the Host header equals the access point's address).
captivePortalRedirect(w, hostIsAp) == w.portalActive /\ w.captiveEnabled /\ ~hostIsAp

\* The time base of portalHasTimedOut().
timeoutBase_Swapped(v) == IF v.webClientCheck THEN v.portalStart ELSE v.lastHttpAccess

timeoutBase(v) == IF v.webClientCheck THEN v.lastHttpAccess ELSE v.portalStart

\* portalHasTimedOut(): the value returned and the world it leaves.
portalHasTimedOut_NoClientCheck(w) ==
  Only({ IF v.portalTimeoutMs = 0 THEN [ret |-> FALSE, st |-> v]
         ELSE [ret |-> (v.now - timeoutBase(v)) > v.portalTimeoutMs, st |-> v]
         : v \in {w} })

portalHasTimedOut(w) ==
  Only({ IF v.portalTimeoutMs = 0 THEN [ret |-> FALSE, st |-> v]
         ELSE IF v.apClientCheck /\ v.stations > 0
              THEN [ret |-> FALSE, st |-> [v EXCEPT !.portalStart = v.now]]
         ELSE [ret |-> (v.now - timeoutBase(v)) > v.portalTimeoutMs, st |-> v]
         : v \in {w} })

\* handleRoot() and handleNotFound(), as far as the manager's state goes.
handleRoot(w, hostIsAp) ==
  Only({ IF captivePortalRedirect(v, hostIsAp) THEN v
         ELSE [v EXCEPT !.lastHttpAccess = v.now]
         : v \in {w} })

handleNotFound(w, hostIsAp) ==
  Only({ IF captivePortalRedirect(v, hostIsAp) THEN v
         ELSE [v EXCEPT !.lastHttpAccess = v.now]
         : v \in {w} })

\* redirectToRoot(): the handler of the captive-detection routes answers 302.
redirectToRoot(w) == w

\* The handler of /favicon.ico (line 283) answers 204.
handleFavicon(w) == w

\* handleScan(): the radio goes to AP+STA and the scan blocks for scanMs; a scan that
\* fails (line 486) and one that succeeds (line 509) both clear scanning.
scanRun(w) ==
  Only({ [delay([v EXCEPT !.scanning = TRUE, !.scanningUntil = v.now + 1500], v.scanMs)
            EXCEPT !.scanning = FALSE]
         : v \in {w} })

handleScan(w) ==
  Only({ scanRun(delay(WiFi_mode([v EXCEPT !.lastHttpAccess = v.now], "AP_STA"), 50))
         : v \in {w} })

\* ESP.restart(): the sketch stops here.
ESP_restart(w) == [w EXCEPT !.pc = "restarted"]

\* handleSave(), lines 410-443, past the timestamp.
saveForm(w) ==
  Only({ IF ~v.post \/ ~v.filled THEN v
         ELSE ESP_restart(delay([v EXCEPT !.wifiJson = "valid"], 1000))
         : v \in {w} })

handleSave(w, hostIsAp) ==
  Only({ IF captivePortalRedirect(v, hostIsAp) THEN v
         ELSE saveForm([v EXCEPT !.lastHttpAccess = v.now])
         : v \in {w} })

\* handleErase(); the route is registered for POST only, so the method test of line
\* 450 never fails.
handleErase(w, hostIsAp) ==
  Only({ IF captivePortalRedirect(v, hostIsAp) THEN v
         ELSE ESP_restart(delay(eraseCredentials(
                delay([v EXCEPT !.lastHttpAccess = v.now], 150)), 300))
         : v \in {w} })

\* The routes a request may ask for; "/other" is any path no route is registered for.
Routes == {"/", "/save", "/scan", "/erase", "/generate_204", "/favicon.ico", "/other"}

\* server.handleClient(): serves the pending request, if any, by the handler
\* setupHTTPRoutes() registered for its route (lines 264-286).
handleClient(w, req, hostIsAp) ==
  CASE req = "none" -> w
    [] req = "/" -> handleRoot(w, hostIsAp)
    [] req = "/save" -> handleSave(w, hostIsAp)
    [] req = "/scan" -> handleScan(w)
    [] req = "/erase" ->
         IF w.post THEN handleErase(w, hostIsAp) ELSE handleNotFound(w, hostIsAp)
    [] req = "/generate_204" ->
         IF w.captiveRoutes THEN redirectToRoot(w) ELSE handleNotFound(w, hostIsAp)
    [] req = "/favicon.ico" -> handleFavicon(w)
    [] req = "/other" -> handleNotFound(w, hostIsAp)

\* update(), line 246: the portal closes when its timeout has expired.
portalExpire(w) ==
  Only({ IF ~v.portalActive THEN v
         ELSE Only({ IF t.ret THEN stopPortal(t.st) ELSE t.st
                     : t \in {portalHasTimedOut(v)} })
         : v \in {w} })

update_TimeoutFirst(w, req, hostIsAp) ==
  ledTask(ledAutoUpdate(handleClient(portalExpire(w), req, hostIsAp)))

update(w, req, hostIsAp) ==
  portalExpire(ledTask(ledAutoUpdate(handleClient(w, req, hostIsAp))))

\* ------------------------------------------------------------------ setters
setPortalTimeout(w, seconds) == [w EXCEPT !.portalTimeoutMs = seconds * 1000]
setAPClientCheck(w, enabled) == [w EXCEPT !.apClientCheck = enabled]
setWebClientCheck(w, enabled) == [w EXCEPT !.webClientCheck = enabled]
setCaptivePortal(w, enabled) == [w EXCEPT !.captiveEnabled = enabled]
setExternalApActive(w, active) == [w EXCEPT !.externalApActive = active]
setFallbackPolicy(w, p) == [w EXCEPT !.fallbackPolicy = p]
enableButtonPortal(w, enable) == [w EXCEPT !.allowButtonPortal = enable]
\* setSmartRetries(), lines 109-111; maxRetries is a uint8_t.
setSmartRetries(w, maxRetries, windowMs) ==
  [w EXCEPT !.maxFailRetries = maxRetries % 256, !.failWindowMs = windowMs]
\* setAutoReconnect(), lines 834-837; WiFi.setAutoReconnect() configures the driver.
setAutoReconnect(w, habilitado) == [w EXCEPT !.autoReconnect = habilitado]

\* setReconnectBackoffMs(ms), setReconnectAttemptMs(ms): a value below 1 s becomes 1 s.
setReconnectBackoffMs_NoClamp(w, ms) == [w EXCEPT !.reconnectBackoffMs = ms]

setReconnectBackoffMs(w, ms) ==
  [w EXCEPT !.reconnectBackoffMs = IF ms < 1000 THEN 1000 ELSE ms]

setReconnectAttemptMs(w, ms) ==
  [w EXCEPT !.reconnectAttemptMs = IF ms < 1000 THEN 1000 ELSE ms]

\* A call of startPortal() made by the entry point in progress.
requestPortal(w) == startPortal([w EXCEPT !.nStartPortal = @ + 1])

\* The link never comes up.
Never == -1

\* WiFi.status() == WL_CONNECTED at the current time, when the association started by
\* the last WiFi.begin() completes at time linkAt.
WiFi_status(w, linkAt) ==
  Only({ [v EXCEPT !.linkUp = @ \/ (linkAt # Never /\ v.now >= linkAt)] : v \in {w} })

\* The polling loop of connectToWiFi() (lines 606-616) and of
\* reintentarConexionSiNecesario() (lines 656-659), entered at time from: pass k reads
\* WiFi.status() at from + 250 k, and the loop is left at the first pass that sees the
\* link up (ret TRUE) or finds tout ms gone (ret FALSE).
pollSeesLink(from, k, linkAt) == linkAt # Never /\ from + (250 * k) >= linkAt

pollExit(from, tout, linkAt) ==
  CHOOSE k \in 0 .. ((tout \div 250) + 1) :
    /\ 250 * k >= tout \/ pollSeesLink(from, k, linkAt)
    /\ \A j \in 0 .. (k - 1) : 250 * j < tout /\ ~pollSeesLink(from, j, linkAt)

waitLink(w, tout, linkAt) ==
  Only({ Only({ [ret |-> 250 * k < tout,
                 st |-> WiFi_status(delay(v, 250 * k), linkAt)]
                : k \in {pollExit(v.now, tout, linkAt)} })
         : v \in {w} })

\* sincronizarHoraNTP(): up to 20 reads of the clock 200 ms apart; synced: the time
\* servers answer before the first read.
RECURSIVE ntpWait(_, _, _)
ntpWait(w, j, synced) ==
  IF j < 20 THEN IF synced THEN w ELSE ntpWait(delay(w, 200), j + 1, synced) ELSE w

sincronizarHoraNTP(w, synced) == ntpWait(w, 0, synced)

\* ------------------------------------------------------------ connectToWiFi
\* connectToWiFi(): the value returned and the world it leaves; linkDelay is the time
\* the association takes (Never: it fails).
connectToWiFi(w, linkDelay) ==
  Only({ IF ~tieneCredenciales(v) THEN [ret |-> FALSE, st |-> v]
         ELSE Only({ [ret |-> r.ret, st |-> [r.st EXCEPT !.connected = r.ret]]
                     : r \in {waitLink(WiFi_begin(WiFi_mode(v, "STA")), 15000,
                                       IF linkDelay = Never THEN Never
                                       ELSE v.now + linkDelay)} })
         : v \in {w} })

\* ---------------------------------------------------------------------- run()
\* run(), lines 165-168: the arming window starts.
runBegin(w) ==
  ledSet(Only({ [v EXCEPT !.startTime = v.now, !.pc = "arming", !.mediumFlip = FALSE]
                : v \in {w} }), "BLINK_SLOW")

\* run(), lines 169-176: one pass of the arming loop, or its exit.
runArmPoll_Long(w) ==
  Only({ IF v.now - v.startTime < 3000
         THEN IF digitalRead(v) = LOW
              THEN [ledSet(v, "OFF") EXCEPT !.t0 = v.now, !.pc = "hold"]
              ELSE delay(ledTask(v), 10)
         ELSE [ledSet(v, "OFF") EXCEPT !.pc = "connect"]
         : v \in {w} })

runArmPoll(w) ==
  Only({ IF v.now - v.startTime < 2000
         THEN IF digitalRead(v) = LOW
              THEN [ledSet(v, "OFF") EXCEPT !.t0 = v.now, !.pc = "hold"]
              ELSE delay(ledTask(v), 10)
         ELSE [ledSet(v, "OFF") EXCEPT !.pc = "connect"]
         : v \in {w} })

\* run(), lines 179-184: the hold has reached 5 s while the button is still down.
runErase_RestartFirst(w) ==
  Only({ [ESP_restart(setLedPatternManual(v, "BLINK_TRIPLE"))
            EXCEPT !.outcome = "erase", !.heldMs = v.now - v.t0]
         : v \in {w} })

runErase(w) ==
  Only({ [ESP_restart(delay(eraseCredentials(setLedPatternManual(v, "BLINK_TRIPLE")), 900))
            EXCEPT !.outcome = "erase", !.heldMs = v.now - v.t0]
         : v \in {w} })

\* run(), lines 192-199: the button has been released after held ms.
runReleased_NoAllow(w) ==
  Only({ IF v.now - v.t0 >= 2000 /\ v.now - v.t0 < 5000
         THEN [requestPortal(setLedAuto(v, TRUE))
                 EXCEPT !.outcome = "portal", !.heldMs = v.now - v.t0, !.pc = "loop"]
         ELSE [setLedAuto(v, TRUE) EXCEPT !.heldMs = v.now - v.t0, !.pc = "connect"]
         : v \in {w} })

runReleased(w) ==
  Only({ IF v.now - v.t0 >= 2000 /\ v.now - v.t0 < 5000 /\ v.allowButtonPortal
         THEN [requestPortal(setLedAuto(v, TRUE))
                 EXCEPT !.outcome = "portal", !.heldMs = v.now - v.t0, !.pc = "loop"]
         ELSE [setLedAuto(v, TRUE) EXCEPT !.heldMs = v.now - v.t0, !.pc = "connect"]
         : v \in {w} })

\* run(), lines 185-186 and 190: a pass of the hold loop with 2000 <= held < 5000.
runHoldMedium(w) ==
  Only({ [u EXCEPT !.mediumFlip = @ \/ u.ledPin # w.ledPin]
         : u \in {delay(ledTask(setLedPatternManual(w, "BLINK_DOUBLE")), 10)} })

\* run(), lines 177-191: one pass of the hold loop, or its exit.
runHoldPoll_NoErase(w) ==
  Only({ IF digitalRead(v) = LOW
         THEN IF v.now - v.t0 >= 2000 /\ v.now - v.t0 < 5000 THEN runHoldMedium(v)
              ELSE delay(ledTask(setLedPatternManual(v, "BLINK_FAST")), 10)
         ELSE runReleased(v)
         : v \in {w} })

runHoldPoll(w) ==
  Only({ IF digitalRead(v) = LOW
         THEN IF v.now - v.t0 >= 5000 THEN runErase(v)
              ELSE IF v.now - v.t0 >= 2000 THEN runHoldMedium(v)
              ELSE delay(ledTask(setLedPatternManual(v, "BLINK_FAST")), 10)
         ELSE runReleased(v)
         : v \in {w} })

\* run(), lines 212-234: the fallback policy decides after a failed connection.
runFallback_OnFailOnly(w) ==
  Only({ CASE v.fallbackPolicy = "ON_FAIL" -> requestPortal(v)
           [] OTHER -> v
         : v \in {w} })

runFallback_AlwaysOpen(w) == requestPortal(w)

runFallback(w) ==
  Only({ CASE v.fallbackPolicy = "ON_FAIL" -> requestPortal(v)
           [] v.fallbackPolicy = "NO_CREDENTIALS_ONLY" ->
                IF ~tieneCredenciales(v) THEN requestPortal(v) ELSE v
           [] OTHER -> v
         : v \in {w} })

\* run(), lines 205-208: the connection succeeded.
runConnected_LedOff(w, synced) ==
  [ledSet(sincronizarHoraNTP(w, synced), "OFF") EXCEPT !.connected = TRUE]

runConnected(w, synced) ==
  [ledSet(sincronizarHoraNTP(w, synced), "ON") EXCEPT !.connected = TRUE]

\* run(), lines 202-235, from connectToWiFi() to the return.
runConnect(w, linkDelay, synced) ==
  Only({ [(IF c.ret THEN runConnected(c.st, synced) ELSE runFallback(c.st))
            EXCEPT !.pc = "loop"]
         : c \in {connectToWiFi(w, linkDelay)} })

\* ------------------------------------------------------------- reconnection
\* The radio mode of a reconnection attempt: the SoftAP is kept while a portal or an
\* external AP is active (lines 648-649, 706-707).
attemptMode(w) == IF w.portalActive \/ w.externalApActive THEN "AP_STA" ELSE "STA"

\* Line 640: the backoff since the last attempt has not elapsed.
backoffPending_Never(w) == FALSE

backoffPending_Always(w) == TRUE

backoffPending(w) == w.now - w.ultimoIntentoWiFi < w.reconnectBackoffMs

\* Lines 670-683: the failure count of SMART_RETRIES, after a failed attempt.
smartWindow_NoExpiry(w) ==
  Only({ IF v.failWindowStart = 0
         THEN [v EXCEPT !.failWindowStart = v.now, !.failCount = 0]
         ELSE v
         : v \in {w} })

smartWindow(w) ==
  Only({ IF v.failWindowStart = 0 \/ (v.now - v.failWindowStart) > v.failWindowMs
         THEN [v EXCEPT !.failWindowStart = v.now, !.failCount = 0]
         ELSE v
         : v \in {w} })

smartOpen_NoReset(w) ==
  Only({ IF v.failCount >= v.maxFailRetries THEN requestPortal(v) ELSE v : v \in {w} })

smartOpen(w) ==
  Only({ IF v.failCount >= v.maxFailRetries
         THEN [requestPortal(v) EXCEPT !.failCount = 0, !.failWindowStart = 0]
         ELSE v
         : v \in {w} })

smartRetries(w) ==
  Only({ IF v.fallbackPolicy = "SMART_RETRIES"
         THEN smartOpen([smartWindow(v) EXCEPT !.failCount = (@ + 1) % 256])
         ELSE v
         : v \in {w} })

\* Largest value the count of consecutive failures is followed to.
MaxStreak == 5

\* A failed attempt is recorded in the streak.
streakFail(w) ==
  Only({ [v EXCEPT !.streak = IF @ < MaxStreak THEN @ + 1 ELSE @,
                   !.streakT0 = IF v.streak = 0 THEN v.now ELSE @]
         : v \in {w} })

\* Lines 660-683: the attempt is over; r is what its polling loop returned.
attemptEnd(r, synced) ==
  IF r.ret
  THEN [sincronizarHoraNTP(r.st, synced)
          EXCEPT !.connected = TRUE, !.failCount = 0, !.failWindowStart = 0,
                 !.streak = 0]
  ELSE smartRetries(streakFail(r.st))

\* Lines 643-684: the attempt, made only with an ssid and a password.
reconnectAttempt_NoCredCheck(w, linkDelay, synced) ==
  Only({ attemptEnd(waitLink(WiFi_begin(WiFi_mode(
                                     [v EXCEPT !.nAttempt = @ + 1,
                                               !.lastAttemptAt = v.now,
                                               !.skipped = FALSE],
                                     attemptMode(v))),
                                  v.reconnectAttemptMs,
                                  IF linkDelay = Never THEN Never ELSE v.now + linkDelay),
                         synced)
         : v \in {w} })

reconnectAttempt(w, linkDelay, synced) ==
  Only({ IF v.ssid # "" /\ v.password # ""
         THEN attemptEnd(waitLink(WiFi_begin(WiFi_mode(
                                     [v EXCEPT !.nAttempt = @ + 1,
                                               !.lastAttemptAt = v.now,
                                               !.skipped = FALSE],
                                     attemptMode(v))),
                                  v.reconnectAttemptMs,
                                  IF linkDelay = Never THEN Never ELSE v.now + linkDelay),
                         synced)
         ELSE v
         : v \in {w} })

\* Lines 636-641: the backoff check.
reconnectBackoff(w, linkDelay, synced) ==
  Only({ IF backoffPending(v) THEN [v EXCEPT !.skipped = TRUE]
         ELSE reconnectAttempt([v EXCEPT !.ultimoIntentoWiFi = v.now], linkDelay, synced)
         : v \in {w} })

reintentarConexionSiNecesario_NoAutoCheck(w, linkDelay, synced) ==
  Only({ IF v.linkUp THEN [v EXCEPT !.connected = TRUE]
         ELSE reconnectBackoff([v EXCEPT !.connected = FALSE], linkDelay, synced)
         : v \in {w} })

reintentarConexionSiNecesario(w, linkDelay, synced) ==
  Only({ IF ~v.autoReconnect THEN v
         ELSE IF v.linkUp THEN [v EXCEPT !.connected = TRUE]
         ELSE reconnectBackoff([v EXCEPT !.connected = FALSE], linkDelay, synced)
         : v \in {w} })

forzarReconexion(w) ==
  Only({ [WiFi_begin(WiFi_mode(v, attemptMode(v))) EXCEPT !.ultimoIntentoWiFi = v.now]
         : v \in {w} })

\* ------------------------------------------------------------ entry points
\* The observations of the previous entry point are cleared when the next one starts.
Enter(w) ==
  [w EXCEPT !.nBegin = 0, !.nStartPortal = 0, !.nAttempt = 0, !.beginNoCred = FALSE]

Running == pc \in {"ready", "loop"}

\* ------------------------------------------------------------------ Init
\* The manager as constructed (AyresWiFiManager.h 212-275) on a device just booted.
Boot ==
  /\ ssid = "" /\ password = ""
  /\ portalActive = FALSE /\ dnsRunning = FALSE
  /\ captiveEnabled = TRUE /\ portalTimeoutMs = 0
  /\ apClientCheck = FALSE /\ webClientCheck = TRUE
  /\ portalStart = 0 /\ lastHttpAccess = 0
  /\ fallbackPolicy = "NO_CREDENTIALS_ONLY" /\ allowButtonPortal = TRUE
  /\ maxFailRetries = 3 /\ failWindowMs = 60000
  /\ failCount = 0 /\ failWindowStart = 0
  /\ connected = FALSE /\ autoReconnect = TRUE /\ ultimoIntentoWiFi = 0
  /\ scanning = FALSE /\ scanningUntil = 0
  /\ ledAuto = TRUE /\ ledPat = "OFF" /\ ledOut = LOW /\ ledStep = 0 /\ ledT0 = 0
  /\ reconnectBackoffMs = 10000 /\ reconnectAttemptMs = 5000
  /\ externalApActive = FALSE
  /\ startTime = 0 /\ t0 = 0
  /\ now = 0 /\ wifiMode = "OFF" /\ apUp = FALSE /\ serverUp = FALSE
  /\ beginIssued = FALSE /\ linkUp = FALSE
  /\ wifiJson \in {"absent", "valid"}
  /\ ledPin = LOW /\ btnFrom = 0 /\ btnTo = 0
  /\ pc = "setup"
  /\ reopened = FALSE /\ lastActivity = 0
  /\ nBegin = 0 /\ nStartPortal = 0 /\ nAttempt = 0 /\ beginNoCred = FALSE
  /\ lastAttemptAt = -1 /\ skipped = FALSE /\ streak = 0 /\ streakT0 = 0
  /\ outcome = "none" /\ heldMs = 0 /\ passes = 0 /\ ticked = FALSE
  /\ protectedExact = << >> /\ captiveRoutes = FALSE
  /\ netUp = FALSE /\ reqAt = -1 /\ lastArg = -1 /\ givenNames = << >>
  /\ mediumFlip = FALSE /\ redundantWrite = FALSE /\ selectedAt = 0

\* An ESP32 whose file store holds at most /wifi.json.
Init == Boot /\ platform = "ESP32" /\ files = {}

\* ------------------------------------------------------------------ actions
\* setup(): the host configures the manager before begin().
SetPortalTimeout == \E sec \in TimeoutSecs : pc = "setup" /\ Commit(setPortalTimeout(Cur, sec))
SetAPClientCheck == \E b \in BOOLEAN : pc = "setup" /\ Commit(setAPClientCheck(Cur, b))
SetWebClientCheck == \E b \in BOOLEAN : pc = "setup" /\ Commit(setWebClientCheck(Cur, b))
SetFallbackPolicy == \E p \in FallbackPolicy : pc = "setup" /\ Commit(setFallbackPolicy(Cur, p))
EnableButtonPortal == \E b \in BOOLEAN : pc = "setup" /\ Commit(enableButtonPortal(Cur, b))

\* begin() with the file store mounted.
Begin == pc = "setup" /\ Commit([begin(Cur, TRUE) EXCEPT !.pc = "ready"])

\* openPortal()
OpenPortal ==
  /\ Running
  /\ Commit(startPortal([Cur EXCEPT !.reopened =
                            @ \/ (portalActive /\ now > portalStart)]))

\* closePortal()
ClosePortal == Running /\ Commit(stopPortal(Cur))

\* One pass of loop(): update() with the inputs of this tick: the pending HTTP request
\* (only while the server listens), its Host header, and the stations on the SoftAP.
\* The tick brings a qualifying activity to an active portal: a station counted under
\* apClientCheck, or a request served by a handler under webClientCheck.
Active(req, hostIsAp, st) ==
  /\ portalActive
  /\ \/ apClientCheck /\ st > 0
     \/ /\ webClientCheck /\ req # "none"
        /\ ~(portalActive /\ captiveEnabled /\ ~hostIsAp)

Tick(req, hostIsAp, st) ==
  Commit([update([Cur EXCEPT !.stations = st], req, hostIsAp)
            EXCEPT !.lastActivity = IF Active(req, hostIsAp, st) THEN now ELSE @])

\* A request arrives only while the server listens, and stations attach only to a
\* SoftAP that is up.
UpdateWith(req, hostIsAp, st) ==
  /\ Running
  /\ req # "none" => serverUp
  /\ req = "none" => hostIsAp
  /\ st > 0 => apUp
  /\ Tick(req, hostIsAp, st)

Requests == {"none", "/"}
Stations == {0, 1}

Update == \E req \in Requests, hostIsAp \in BOOLEAN, st \in Stations : UpdateWith(req, hostIsAp, st)

\* The clock advances by d ms between two entry points; grid is the coarse step.
Advance(d, grid) ==
  /\ Running
  /\ IF d < grid THEN (now % grid) + d <= MaxFine * 10 ELSE now + d <= MaxCoarse * grid
  /\ Commit(delay(Cur, d))

AdvancePortal == \E d \in PortalSteps : Advance(d, 5000)

Next ==
  \/ SetPortalTimeout \/ SetAPClientCheck \/ SetWebClientCheck
  \/ Begin \/ OpenPortal \/ Update \/ ClosePortal \/ AdvancePortal

Spec == Init /\ [][Next]_vars

\* ------------------------------------------------- portal with a fair scheduler
\* loop() calls update() forever and the clock advances.  The clock of the model is
\* bounded, so clients, requests and portal opens stop at QuietFrom, early enough for
\* the longest timeout to elapse before the clock's bound.
QuietFrom == (MaxCoarse * 5000) - ((1000 * 30) + 5000)

OpenPortalEarly == now <= QuietFrom /\ OpenPortal

\* update() as UpdateWith, its call observed in ticked.
UpdateSeen(req, hostIsAp, st) ==
  /\ Running
  /\ req # "none" => serverUp
  /\ req = "none" => hostIsAp
  /\ st > 0 => apUp
  /\ Commit([update([Cur EXCEPT !.stations = st], req, hostIsAp)
               EXCEPT !.ticked = ~(apClientCheck /\ st > 0),
                      !.lastActivity = IF Active(req, hostIsAp, st) THEN now ELSE @])

UpdateQuiet == UpdateSeen("none", TRUE, 0)

UpdateBusy ==
  /\ now <= QuietFrom
  /\ \E req \in Requests, hostIsAp \in BOOLEAN, st \in Stations :
       (req # "none" \/ st > 0) /\ UpdateSeen(req, hostIsAp, st)

AdvanceCoarse == Advance(5000, 5000)

NextFair ==
  \/ SetPortalTimeout \/ SetAPClientCheck \/ SetWebClientCheck
  \/ Begin \/ OpenPortalEarly \/ UpdateQuiet \/ UpdateBusy \/ ClosePortal \/ AdvanceCoarse

SpecFair == Init /\ [][NextFair]_vars /\ WF_vars(UpdateQuiet) /\ WF_vars(AdvanceCoarse)

\* ------------------------------------------------ the startup decision cycle
\* setup() calls begin() and then run(); loop() follows.  run() polls the button every
\* 10 ms, so each pass of its two polling loops is a step; the rest of run(), from
\* connectToWiFi() on, is one step.
\* Offsets (ms) of the button press from the call of run().
PressAt == {0, 1, 5}
\* Durations (ms) of the button hold.
Holds == {1990, 1999, 2000, 4999, 5000, 5010, 6000}
\* Times (ms) the association takes after WiFi.begin().
LinkDelays == {100, 14900, Never}
\* Passes of loop() followed after run() has returned.
MaxPasses == 3

\* run() is called; the button is never pressed.
RunStartIdle ==
  /\ pc = "ready"
  /\ Commit(runBegin(Enter([Cur EXCEPT !.btnFrom = 0, !.btnTo = 0])))

\* run() is called; the button goes down press ms later and stays down for hold ms.
RunStartPressed ==
  \E press \in PressAt, hold \in Holds :
    /\ pc = "ready"
    /\ Commit(runBegin(Enter([Cur EXCEPT !.btnFrom = now + press,
                                         !.btnTo = now + press + hold])))

\* run() is called; the button goes down only about when the arming window ends, or
\* later, and stays down through the connection attempt and the first passes of loop().
LatePress == {1995, 2000, 2100}
LateHold == 20000

RunStartLate ==
  \E press \in LatePress :
    /\ pc = "ready"
    /\ Commit(runBegin(Enter([Cur EXCEPT !.btnFrom = now + press,
                                         !.btnTo = now + press + LateHold])))

RunArm == pc = "arming" /\ Commit(runArmPoll(Cur))

RunHold == pc = "hold" /\ Commit(runHoldPoll(Cur))

RunConnectWith(linkDelay, synced) ==
  pc = "connect" /\ Commit(runConnect(Cur, linkDelay, synced))

RunConnect == \E linkDelay \in LinkDelays, synced \in BOOLEAN : RunConnectWith(linkDelay, synced)

\* loop(): update() with no request pending and no station attached.
LoopUpdate == pc = "loop" /\ Tick("none", TRUE, 0)

\* loop(): delay(10) ends the pass.
LoopDelay ==
  /\ pc = "loop" /\ passes < MaxPasses
  /\ Commit([delay(Cur, 10) EXCEPT !.passes = @ + 1])

\* The station link is lost.
LinkDown == Running /\ linkUp /\ Commit([Cur EXCEPT !.linkUp = FALSE])

NextRun ==
  \/ SetFallbackPolicy \/ EnableButtonPortal \/ Begin \/ OpenPortal
  \/ RunStartIdle \/ RunStartPressed \/ RunStartLate \/ RunArm \/ RunHold \/ RunConnect
  \/ LoopUpdate \/ LoopDelay \/ LinkDown

SpecRun == Init /\ [][NextRun]_vars

\* run() by itself, from the call to its return or the restart.  Each pass of a polling
\* loop ends in delay(10) and the next pass follows; connectToWiFi() and the rest of
\* run() follow the polling loops.
NextTerminate ==
  \/ SetFallbackPolicy \/ EnableButtonPortal \/ Begin
  \/ RunStartIdle \/ RunStartPressed \/ RunStartLate \/ RunArm \/ RunHold \/ RunConnect

SpecTerminate ==
  /\ Init /\ [][NextTerminate]_vars
  /\ WF_vars(RunArm) /\ WF_vars(RunHold) /\ WF_vars(RunConnect)

\* ------------------------------------------------------ the reconnection driver
\* A host that goes from begin() to its loop and drives the reconnection itself: it
\* calls reintentarConexionSiNecesario() and forzarReconexion() at any time, while the
\* link comes and goes.  The calls are made at multiples of 5000 ms, and the clock
\* also advances by the duration of each attempt.
\* Number of 5000 ms steps the clock of this specification may cover.
MaxReSteps == 16
\* Times (ms) the association of a reconnection attempt takes.
ReLinkDelays == {100, Never}

ReintentarWith(linkDelay, synced) ==
  /\ Running /\ now <= MaxReSteps * 5000
  /\ Commit(reintentarConexionSiNecesario(Enter(Cur), linkDelay, synced))

Reintentar ==
  \E linkDelay \in ReLinkDelays, synced \in BOOLEAN : ReintentarWith(linkDelay, synced)

ForzarReconexion == Running /\ Commit(forzarReconexion(Enter(Cur)))

\* The association started by the last WiFi.begin() completes between two calls.
LinkUp ==
  /\ Running /\ ~linkUp /\ beginIssued /\ wifiMode \in {"STA", "AP_STA"}
  /\ ssid # "" /\ password # ""
  /\ Commit([Cur EXCEPT !.linkUp = TRUE])

AdvanceReconnect ==
  /\ Running /\ now + 5000 <= MaxReSteps * 5000
  /\ Commit(delay(Cur, 5000 - (now % 5000)))

\* setup(): the host selects SMART_RETRIES, or keeps the default policy.
SetSmartRetries == pc = "setup" /\ Commit(setFallbackPolicy(Cur, "SMART_RETRIES"))

NextReconnect ==
  \/ SetSmartRetries \/ Begin
  \/ Reintentar \/ ForzarReconexion \/ LinkUp \/ LinkDown \/ AdvanceReconnect

SpecReconnect == Init /\ [][NextReconnect]_vars

\* ------------------------------------------------------ the failure counter
\* A host that selects SMART_RETRIES with its own threshold and window in setup() and
\* whose loop calls the reconnection driver on a 5 s cadence while the link comes and
\* goes.
\* Number of 5000 ms steps the clock of this specification may cover.
MaxSmSteps == 12
\* Thresholds and windows (ms) the host passes to setSmartRetries().
SmartMax == {1, 2, 3}
SmartWindows == {20000, 60000}

SmGrid == now % 5000 = 0 /\ now <= MaxSmSteps * 5000

SetSmartLimits ==
  \E m \in SmartMax, win \in SmartWindows :
    pc = "setup" /\ Commit(setSmartRetries(Cur, m, win))

SmReintentar == SmGrid /\ Reintentar

SmAdvance == now + 5000 <= MaxSmSteps * 5000 /\ AdvanceReconnect

NextSmart ==
  \/ SetSmartRetries \/ SetSmartLimits \/ Begin
  \/ SmReintentar \/ LinkUp \/ LinkDown \/ SmAdvance

SpecSmart == Init /\ [][NextSmart]_vars

\* ------------------------------------------------------ the provisioning surface
\* A host that opens and closes the portal while browsers send requests for every
\* route, with and without the access point's address in the Host header.
\* Number of 5000 ms steps the clock of this specification may cover.
MaxHttpSteps == 3

\* setCaptivePortal(), before begin() or later.
SetCaptivePortal ==
  \E b \in BOOLEAN : pc \in {"setup", "ready"} /\ Commit(setCaptivePortal(Cur, b))

\* begin() when LittleFS fails to mount.
BeginUnmounted == pc = "setup" /\ Commit([begin(Cur, FALSE) EXCEPT !.pc = "ready"])

\* openPortal(); ok is the result of WiFi.softAP().
OpenPortalWith(ok) == Running /\ Commit(startPortal([Cur EXCEPT !.apOk = ok]))

OpenPortalTry == \E ok \in BOOLEAN : OpenPortalWith(ok)

\* One pass of loop(): update() with a request pending.
HttpTick(req, hostIsAp, post, filled) ==
  /\ Running /\ serverUp /\ now <= MaxHttpSteps * 5000
  /\ post => req \in {"/save", "/erase"}
  /\ filled => (post /\ req = "/save")
  /\ Commit([update([Cur EXCEPT !.post = post, !.filled = filled], req, hostIsAp)
               EXCEPT !.reqAt = IF portalActive THEN now ELSE @,
                      !.lastActivity = IF Active(req, hostIsAp, 0) THEN now ELSE @])

HttpUpdate ==
  \E req \in Routes, hostIsAp \in BOOLEAN, post \in BOOLEAN, filled \in BOOLEAN :
    HttpTick(req, hostIsAp, post, filled)

\* One pass of loop() with no request pending.
QuietUpdate == Running /\ Tick("none", TRUE, 0)

AdvanceHttp ==
  /\ Running /\ now + 5000 <= MaxHttpSteps * 5000
  /\ Commit(delay(Cur, 5000))

NextHttp ==
  \/ SetCaptivePortal \/ Begin \/ BeginUnmounted
  \/ OpenPortalTry \/ ClosePortal \/ HttpUpdate \/ QuietUpdate \/ AdvanceHttp

SpecHttp == Init /\ [][NextHttp]_vars

\* ------------------------------------------------ coexistence with an external AP
\* A host that runs an access point of its own next to the manager: it brings its
\* SoftAP up, tells the manager with setExternalApActive(true), and then uses every
\* entry point of the manager while the link comes and goes.
\* Number of 5000 ms steps the clock of this specification may cover.
MaxCoSteps == 3

\* The host starts its access point and sets the flag.
ExternalApStart ==
  /\ pc \in {"setup", "ready"} /\ ~externalApActive
  /\ Commit(setExternalApActive(WiFi_softAP(WiFi_mode(Cur, "AP")), TRUE))

\* The host makes its calls on a 5 s cadence, up to the bound of the clock.
OnGrid == now % 5000 = 0 /\ now <= MaxCoSteps * 5000

\* setup() calls run() at boot; the button is not pressed.
CoRun == now = 0 /\ RunStartIdle

CoOpenPortal == OnGrid /\ OpenPortal

CoClosePortal == OnGrid /\ ClosePortal

\* connectToWiFi(), called by the host.
ConnectToWiFi ==
  \E linkDelay \in ReLinkDelays :
    Running /\ OnGrid /\ Commit(connectToWiFi(Enter(Cur), linkDelay).st)

CoReintentar == OnGrid /\ Reintentar

CoForzarReconexion == OnGrid /\ ForzarReconexion

CoAdvance == now + 5000 <= MaxCoSteps * 5000 /\ AdvanceReconnect

NextCoexist ==
  \/ ExternalApStart \/ Begin
  \/ CoRun \/ RunArm \/ RunConnect
  \/ CoOpenPortal \/ CoClosePortal \/ QuietUpdate
  \/ ConnectToWiFi \/ CoReintentar \/ CoForzarReconexion
  \/ LinkUp \/ LinkDown \/ CoAdvance

SpecCoexist == Init /\ [][NextCoexist]_vars

\* -------------------------------------------------- reconnection switched off
\* A host that switches the automatic reconnection off and on while its loop calls
\* reintentarConexionSiNecesario(); it may force a reconnection and open the portal,
\* and the link comes and goes.
SetAutoReconnect == \E b \in BOOLEAN : OnGrid /\ Running /\ Commit(setAutoReconnect(Cur, b))

NextAuto ==
  \/ SetFallbackPolicy \/ Begin \/ SetAutoReconnect
  \/ CoOpenPortal \/ CoReintentar \/ CoForzarReconexion
  \/ LinkUp \/ LinkDown \/ CoAdvance

SpecAuto == Init /\ [][NextAuto]_vars

\* ------------------------------------------------- the fallback policies at work
\* The standard sketch under each fallback policy: setup() selects the policy, calls
\* begin() and run() (the button untouched, or held for a MEDIUM gesture), and loop()
\* then calls update() and, on a 5 s cadence, reintentarConexionSiNecesario(), while
\* the host may open and close the portal itself.
\* Number of 5000 ms steps the clock of this specification may cover.
MaxPoSteps == 7
\* Duration (ms) of the MEDIUM hold.
MediumHold == 3000

\* loop() runs once run() has returned; the host makes its calls on a 5 s cadence.
PoGrid == pc = "loop" /\ now % 5000 = 0 /\ now <= MaxPoSteps * 5000

\* setup() calls run() at boot; the button is not pressed.
PoRunIdle == now = 0 /\ RunStartIdle

\* setup() calls run() at boot with the button down, released MediumHold ms later.
PoRunHeld ==
  /\ pc = "ready" /\ now = 0
  /\ Commit(runBegin(Enter([Cur EXCEPT !.btnFrom = now, !.btnTo = now + MediumHold])))

PoOpenPortal == PoGrid /\ OpenPortal

PoClosePortal == PoGrid /\ ClosePortal

PoReintentar == PoGrid /\ Reintentar

PoAdvance == pc = "loop" /\ now + 5000 <= MaxPoSteps * 5000 /\ AdvanceReconnect

NextPolicy ==
  \/ SetFallbackPolicy \/ Begin
  \/ PoRunIdle \/ PoRunHeld \/ RunArm \/ RunHold \/ RunConnect
  \/ PoOpenPortal \/ PoClosePortal \/ QuietUpdate \/ PoReintentar
  \/ LinkUp \/ LinkDown \/ PoAdvance

SpecPolicy == Init /\ [][NextPolicy]_vars

\* ----------------------------------------------------- the reconnection timing
\* A host that sets the reconnection timing before and after begin().
\* Arguments (ms) the host passes; the largest is the largest value of a signed
\* 32-bit integer.
TimingArgs == {0, 1, 999, 1000, 1001, 5000, 10000, 60000, 2147483647}

SetReconnectBackoffMsWith(ms) ==
  /\ pc \in {"setup", "ready"}
  /\ Commit([setReconnectBackoffMs(Cur, ms) EXCEPT !.lastArg = ms])

SetReconnectBackoffMs == \E ms \in TimingArgs : SetReconnectBackoffMsWith(ms)

SetReconnectAttemptMsWith(ms) ==
  /\ pc \in {"setup", "ready"}
  /\ Commit([setReconnectAttemptMs(Cur, ms) EXCEPT !.lastArg = ms])

SetReconnectAttemptMs == \E ms \in TimingArgs : SetReconnectAttemptMsWith(ms)

NextTiming == SetReconnectBackoffMs \/ SetReconnectAttemptMs \/ Begin

SpecTiming == Init /\ [][NextTiming]_vars

\* ------------------------------------------- reconnection with a fair scheduler
\* loop() calls reintentarConexionSiNecesario() forever and the clock advances, under
\* each fallback policy.  The network is out of reach until, at some time, it comes
\* in reach and stays so.  The clock of the model is bounded, so the link losses, the
\* host's portal calls and the arrival of the network stop at RetryQuietFrom, early
\* enough for a backoff and an attempt to follow before the clock's bound.
\* Number of 5000 ms steps the clock of this specification may cover.
MaxRetrySteps == 10

RetryQuietFrom == (MaxRetrySteps * 5000) - (10000 + 5000)

\* reintentarConexionSiNecesario(), called by loop() on a 5 s cadence: the association
\* of its attempt completes once the network is in reach for good, and may complete
\* or not before that; the time servers answer.
RetryCall ==
  \E linkDelay \in ReLinkDelays :
    /\ Running /\ now % 5000 = 0 /\ now <= MaxRetrySteps * 5000
    /\ netUp => linkDelay # Never
    /\ Commit(reintentarConexionSiNecesario(Enter(Cur), linkDelay, TRUE))

\* The network comes in reach, for good.
NetUp == Running /\ ~netUp /\ now <= RetryQuietFrom /\ Commit([Cur EXCEPT !.netUp = TRUE])

\* The station link is lost while the network is out of reach.
RetryLinkDown == ~netUp /\ now <= RetryQuietFrom /\ LinkDown

RetryOpenPortal == now <= RetryQuietFrom /\ OpenPortal

RetryClosePortal == now <= RetryQuietFrom /\ ClosePortal

RetryAdvance == now + 5000 <= MaxRetrySteps * 5000 /\ AdvanceReconnect

NextRetry ==
  \/ SetFallbackPolicy \/ Begin
  \/ RetryCall \/ NetUp \/ RetryLinkDown \/ RetryOpenPortal \/ RetryClosePortal
  \/ RetryAdvance

SpecRetry == Init /\ [][NextRetry]_vars /\ WF_vars(RetryCall) /\ WF_vars(RetryAdvance)

\* ------------------------------------------------------------ the erase
\* A device of either build whose file store holds some files next to /wifi.json; the
\* host names the protected files, and the credentials are erased (by the LONG button
\* hold or by POST /erase), after which the device restarts.
\* The files the store may hold: /a.json, /b.json, /a.txt, /d/a.json.
FileUniverse ==
  { <<"/", "a">> \o JsonExt, <<"/", "b">> \o JsonExt, <<"/", "a", ".", "t", "x", "t">>,
    <<"/", "d", "/", "a">> \o JsonExt }

\* The names the host may pass: "", a.json, /A.JSON, wifi.json, d/a.json.
NameChoices ==
  { << >>, <<"a">> \o JsonExt, <<"/", "A", ".", "J", "S", "O", "N">>,
    <<"w", "i", "f", "i">> \o JsonExt, <<"d", "/", "a">> \o JsonExt }

\* The lists of at most two names.
NameLists ==
  {<< >>} \cup { <<n>> : n \in NameChoices } \cup { <<n, m>> : n \in NameChoices, m \in NameChoices }

InitErase == Boot /\ platform \in Platforms /\ files \in SUBSET FileUniverse

SetProtectedJsonsWith(names) ==
  /\ pc \in {"setup", "ready"}
  /\ Commit([setProtectedJsons(Cur, names) EXCEPT !.givenNames = names])

SetProtectedJsons == \E names \in NameLists : SetProtectedJsonsWith(names)

\* eraseCredentials() followed by the restart (lines 182-184, 460-463).
EraseCredentials ==
  \E nameIsPath \in BOOLEAN :
    /\ Running
    /\ Commit(ESP_restart(eraseCredentials([Cur EXCEPT !.nameIsPath = nameIsPath])))

NextErase == Begin \/ SetProtectedJsons \/ EraseCredentials

SpecErase == InitErase /\ [][NextErase]_vars

\* ------------------------------------------------------------ the indicator
\* A host in its loop: the portal opens and closes (by the host or by its timeout),
\* clients ask for scans, the station link comes and goes, and the host may take the
\* LED over with setLedPatternManual() and give it back with setLedAuto(true).  The
\* clock advances in steps of 500 ms, a third of the post-scan grace period.
MaxIndSteps == 8
\* Portal timeouts (s) of this host.
IndTimeoutSecs == {0, 2}
\* Times (ms) the blocking scan takes.
ScanTimes == {500, 2000}
\* Patterns the host selects by hand.
ManualPatterns == {"ON", "BLINK_TRIPLE"}

IndGrid == Running /\ now % 500 = 0 /\ now <= MaxIndSteps * 500

IndSetPortalTimeout ==
  \E sec \in IndTimeoutSecs : pc = "setup" /\ Commit(setPortalTimeout(Cur, sec))

IndOpenPortal == IndGrid /\ OpenPortal

IndClosePortal == IndGrid /\ ClosePortal

IndForzarReconexion == now = 0 /\ ForzarReconexion

\* One pass of loop(): update() with no request pending.
IndUpdate == now <= MaxIndSteps * 500 /\ UpdateSeen("none", TRUE, 0)

\* One pass of loop(): update() serves GET /scan, and the scan takes scanMs.
IndScanWith(scanMs) ==
  /\ IndGrid /\ serverUp
  /\ Commit([update([Cur EXCEPT !.scanMs = scanMs], "/scan", TRUE)
               EXCEPT !.reqAt = IF portalActive THEN now ELSE @,
                      !.lastActivity = IF Active("/scan", TRUE, 0) THEN now ELSE @])

IndScan == \E scanMs \in ScanTimes : IndScanWith(scanMs)

SetLedPatternManualWith(p) == IndGrid /\ Commit(setLedPatternManual(Cur, p))

SetLedPatternManual == \E p \in ManualPatterns : SetLedPatternManualWith(p)

SetLedAuto == IndGrid /\ ~ledAuto /\ Commit(setLedAuto(Cur, TRUE))

IndAdvance ==
  /\ Running /\ now + 500 <= MaxIndSteps * 500
  /\ Commit(delay(Cur, 500 - (now % 500)))

NextIndicator ==
  \/ IndSetPortalTimeout \/ Begin \/ IndOpenPortal \/ IndClosePortal
  \/ IndForzarReconexion \/ LinkUp \/ LinkDown \/ IndUpdate \/ IndScan
  \/ SetLedPatternManual \/ SetLedAuto \/ IndAdvance

SpecIndicator == Init /\ [][NextIndicator]_vars

\* --------------------------------------------------- requests and the timeout
\* A host with a short portal timeout whose loop() calls update(); clients request
\* the portal page and the network scan.
\* One pass of loop(): update() serves GET / from a client that addressed the
\* access point by its IP (hostIsAp) or by another host name.
ServeRootWith(hostIsAp) ==
  /\ IndGrid /\ serverUp
  /\ Commit([update(Cur, "/", hostIsAp)
               EXCEPT !.lastActivity = IF Active("/", hostIsAp, 0) THEN now ELSE @])

ServeRoot == \E hostIsAp \in BOOLEAN : ServeRootWith(hostIsAp)

NextServe ==
  \/ IndSetPortalTimeout \/ SetWebClientCheck \/ Begin \/ IndOpenPortal \/ IndClosePortal
  \/ IndUpdate \/ IndScan \/ ServeRoot \/ IndAdvance

SpecServe == Init /\ [][NextServe]_vars

\* ------------------------------------------------------------ the LED output
\* A host that selects the LED patterns by hand, or returns the LED to automatic mode,
\* and whose loop() calls update(), and with it ledTask(), every 10 ms.
MaxLedTicks == 130
\* The host changes the pattern every so many passes of loop().
SelectEvery == 25

LedGrid == Running /\ now % (SelectEvery * 10) = 0 /\ now <= MaxLedTicks * 10

LedSelectWith(p) == LedGrid /\ Commit(setLedPatternManual(Cur, p))

LedSelect == \E p \in LedPattern : LedSelectWith(p)

LedAuto == LedGrid /\ ~ledAuto /\ Commit(setLedAuto(Cur, TRUE))

LedUpdate == now <= MaxLedTicks * 10 /\ UpdateSeen("none", TRUE, 0)

\* delay(10) ends the pass of loop() in which update() has run.
LedAdvance ==
  /\ Running /\ ticked /\ now + 10 <= MaxLedTicks * 10
  /\ Commit(delay(Cur, 10))

NextLed == Begin \/ LedSelect \/ LedAuto \/ LedUpdate \/ LedAdvance

SpecLed == Init /\ [][NextLed]_vars

\* ================================================================== claims
PortalFields ==
  << portalActive, portalStart, lastHttpAccess, dnsRunning, wifiMode, ledPat, ledStep,
     ledT0 >>

\* C1: portal-open is idempotent.  Every openPortal() leaves the portal active, and an
\* openPortal() on a portal that is already active (the second of two calls with no
\* close in between, whatever time has passed) changes none of portalActive,
\* portalStart, lastHttpAccess, dnsRunning, the radio mode, the LED pattern and phase.
C1_OpenIdempotent ==
  [][OpenPortal => (portalActive' /\ (portalActive => UNCHANGED PortalFields))]_vars

\* C1 witness: a second openPortal() was made on an active portal after time had passed.
C1_Witness == reopened /\ portalActive /\ now > portalStart

\* A step of update() that closes the portal (by timeout: update() has no other close).
TimeoutClose == Update /\ portalActive /\ ~portalActive'

\* C2: the timeout never fires early.  Whenever update() closes the portal, at least
\* portalTimeoutMs have elapsed since the later of the open time and the last
\* qualifying activity (tick with an AP client under apClientCheck, HTTP request under
\* webClientCheck; requests answered by the captive redirect are not even counted).
C2_NeverEarly == [][TimeoutClose => (now - lastActivity' >= portalTimeoutMs)]_vars

\* The elapsed time portalHasTimedOut() measures at the end of a tick.
Elapsed == now - (IF webClientCheck THEN lastHttpAccess ELSE portalStart)

\* C3: the timeout eventually fires.  After an update() that counted no AP client, a
\* portal with portalTimeoutMs > 0 is active only if the elapsed time does not exceed
\* portalTimeoutMs (the first update() past the deadline has closed it); and once
\* clients and requests have ceased, an active portal with portalTimeoutMs > 0
\* eventually becomes inactive.
C3_TimeoutFires ==
  /\ []((ticked /\ portalActive /\ portalTimeoutMs > 0) => Elapsed <= portalTimeoutMs)
  /\ ((portalActive /\ portalTimeoutMs > 0) ~> ~portalActive)

\* C3 witness: the portal has been closed by the timeout, one coarse step after the
\* last tick that left it open.
C3_Witness ==
  /\ ticked /\ ~portalActive /\ serverUp = FALSE /\ portalTimeoutMs > 0
  /\ now - lastActivity > portalTimeoutMs /\ now - lastActivity <= portalTimeoutMs + 5000
  /\ ledPat = "BLINK_SLOW"

\* C4 as claimed: on every update() with apClientCheck set and a station attached the
\* portal stays open and portalStart is reset to the current time, whatever
\* portalTimeoutMs.
C4_Original ==
  [][\A req \in Requests, hostIsAp \in BOOLEAN :
       (portalActive /\ apClientCheck /\ UpdateWith(req, hostIsAp, 1))
         => (portalActive' /\ portalStart' = now)]_vars

\* C4 amended: on every update() with apClientCheck set and a station attached the
\* portal stays open; portalStart is reset to the current time when
\* portalTimeoutMs > 0 and is left unchanged when portalTimeoutMs = 0.
C4_ClientOverride ==
  [][\A req \in Requests, hostIsAp \in BOOLEAN :
       (portalActive /\ apClientCheck /\ UpdateWith(req, hostIsAp, 1))
         => /\ portalActive'
            /\ portalTimeoutMs > 0 => portalStart' = now
            /\ portalTimeoutMs = 0 => portalStart' = portalStart]_vars

\* C4 witness: a client kept the portal open on a tick at which the elapsed time
\* measured from the last request exceeded the timeout.
C4_Witness ==
  /\ portalActive /\ apClientCheck /\ webClientCheck /\ portalTimeoutMs > 0
  /\ portalStart = now /\ now - lastHttpAccess > portalTimeoutMs

\* A credential is stored: tieneCredenciales() in the current state.
HasCredential == wifiJson # "absent" /\ ssid # "" /\ password # ""

\* C5: policy table of run().  Whenever run() goes on to connectToWiFi() (no button
\* gesture, or a gesture that opened nothing), it requests the portal exactly once when
\* (fallbackPolicy = ON_FAIL and the connection failed) or (fallbackPolicy =
\* NO_CREDENTIALS_ONLY and no credential is stored), and the portal is then active; in
\* every other case (every success, every case of SMART_RETRIES, BUTTON_ONLY, NEVER)
\* it makes no portal request.
C5_PolicyTable ==
  [][RunConnect =>
       LET due == \/ fallbackPolicy = "ON_FAIL" /\ ~connected'
                  \/ fallbackPolicy = "NO_CREDENTIALS_ONLY" /\ ~HasCredential
       IN /\ nStartPortal' = IF due THEN 1 ELSE 0
          /\ due => portalActive'
          /\ connected' => HasCredential]_vars

\* C5 witness: no gesture, a credential is stored, the 15 s attempt failed under
\* ON_FAIL and run() opened the portal.
C5_Witness ==
  /\ pc = "loop" /\ btnFrom = btnTo /\ fallbackPolicy = "ON_FAIL" /\ HasCredential
  /\ ~connected /\ nBegin = 1 /\ nStartPortal = 1 /\ portalActive /\ now >= 2000 + 15000

\* A call of reintentarConexionSiNecesario() whose attempt failed.
FailedAttempt == Reintentar /\ nAttempt' = 1 /\ streak' > 0

\* C6: smart-retry accumulation.  Under SMART_RETRIES (maxFailRetries 3, failWindowMs
\* 60000), of the consecutive failed attempts counted from boot or from the last
\* successful attempt and recorded within 60 s of the first: the first and the second
\* make no portal request and leave failCount at 1 and 2; the third makes exactly one
\* portal request and leaves failCount = 0 and failWindowStart = 0; and the failure
\* that follows that reset makes no portal request and leaves failCount = 1.
C6_SmartRetries ==
  [][(FailedAttempt /\ fallbackPolicy = "SMART_RETRIES")
       => /\ (streak' \in {1, 2} /\ now' - streakT0' <= failWindowMs)
               => /\ nStartPortal' = 0 /\ failCount' = streak'
                  /\ failWindowStart' = streakT0'
          /\ (streak' = 3 /\ now' - streakT0' <= failWindowMs)
               => /\ nStartPortal' = 1 /\ portalActive'
                  /\ failCount' = 0 /\ failWindowStart' = 0
          /\ (streak' = 4 /\ failCount = 0 /\ failWindowStart = 0)
               => nStartPortal' = 0 /\ failCount' = 1]_vars

\* C6 witness: four consecutive failures within 60 s: the third opened the portal and
\* reset the count, the fourth counted one.
C6_Witness ==
  /\ fallbackPolicy = "SMART_RETRIES" /\ streak = 4 /\ now - streakT0 <= failWindowMs
  /\ portalActive /\ failCount = 1 /\ failWindowStart = now /\ nStartPortal = 0

\* C8: backoff enforcement.  The start times of two consecutive attempts of
\* reintentarConexionSiNecesario() are at least reconnectBackoffMs apart, and a call
\* made less than reconnectBackoffMs after the start of its last attempt calls
\* WiFi.begin not at all.
C8_Backoff ==
  /\ [][(lastAttemptAt' # lastAttemptAt /\ lastAttemptAt >= 0)
          => lastAttemptAt' - lastAttemptAt >= reconnectBackoffMs]_vars
  /\ [][(Reintentar /\ lastAttemptAt >= 0 /\ now - lastAttemptAt < reconnectBackoffMs)
          => nBegin' = 0 /\ lastAttemptAt' = lastAttemptAt]_vars

\* C8 witness: with the link down and a credential stored, a call made less than
\* reconnectBackoffMs after an attempt has returned at the backoff check.
C8_Witness ==
  /\ skipped /\ lastAttemptAt >= 0 /\ now - lastAttemptAt < reconnectBackoffMs
  /\ ~linkUp /\ HasCredential /\ nBegin = 0 /\ nAttempt = 0

\* C9: no connection attempt without a credential.  No entry point calls WiFi.begin,
\* or selects a station mode, while ssid or password is empty.
C9_NoAttemptWithoutCredential == ~beginNoCred

\* The button was pressed during the arming window and the gesture is over.
GestureDone == pc \in {"connect", "loop", "restarted"} /\ btnFrom < btnTo

\* The outcome the hold duration d (ms) calls for: none below 2000, the portal (when
\* the button portal is allowed) from 2000 to below 5000, the erase from 5000.
HoldClass(d) ==
  IF d < 2000 THEN "none"
  ELSE IF d < 5000 THEN (IF allowButtonPortal THEN "portal" ELSE "none")
  ELSE "erase"

\* C7: gesture boundaries of run().  Once the gesture is over, its outcome is the one
\* the duration of the hold calls for (SHORT: none, MEDIUM: portal, LONG: erase and
\* restart), for holds of 1990, 1999, 2000, 4999, 5000, 5010, 6000 ms and every alignment
\* of the press with the 10 ms poll.
C7_GestureBoundaries == GestureDone => outcome = HoldClass(btnTo - btnFrom)

C11_EveryRequestRefreshes == [][reqAt' # reqAt => lastHttpAccess' = reqAt']_vars

\* C18: a provisioning surface that fails to start leaves the portal closed.  An
\* openPortal() during which the access point cannot be brought up leaves
\* portalActive = FALSE, and every openPortal() during which the access point can be
\* brought up leaves it up (a request that follows a failed one starts the surface
\* again instead of being a no-op).
C18_FailedStartRetried ==
  /\ [][(OpenPortalWith(FALSE) /\ ~portalActive) => ~portalActive']_vars
  /\ [][OpenPortalWith(TRUE) => apUp']_vars

\* C12: closing the portal under the external-AP flag tears down only the manager's
\* DNS and HTTP servers.  closePortal() on an active portal with externalApActive set
\* leaves portalActive = FALSE and dnsRunning = FALSE, and leaves the access point, the
\* radio mode and the station link as they were.
C12_CloseKeepsRadio ==
  [][(ClosePortal /\ portalActive /\ externalApActive)
       => /\ ~portalActive' /\ ~dnsRunning'
          /\ apUp' = apUp /\ wifiMode' = wifiMode /\ linkUp' = linkUp]_vars

\* C13: while externalApActive is set the radio mode includes the access point (AP or
\* AP+STA), whatever run(), connectToWiFi(), reintentarConexionSiNecesario(),
\* forzarReconexion(), openPortal(), closePortal() and update() have done.
C13_ExternalApKept == externalApActive => wifiMode \in {"AP", "AP_STA"}

\* C14: the failure window is reset by any successful connection.  Every call of
\* reintentarConexionSiNecesario() made while the link is connected (also a link
\* restored by the driver itself or after forzarReconexion()) leaves failCount = 0 and
\* failWindowStart = 0.
C14_SuccessResetsWindow ==
  [][(Reintentar /\ linkUp) => (failCount' = 0 /\ failWindowStart' = 0)]_vars

\* C15: under BUTTON_ONLY or NEVER the portal is never opened automatically.  While
\* the policy is BUTTON_ONLY or NEVER, every step that takes portalActive from FALSE to
\* TRUE is an openPortal() call or the release of a MEDIUM button hold in run(); no
\* failed attempt of run() or of reintentarConexionSiNecesario() opens it, with or
\* without a stored credential.
C15_NoAutomaticOpen ==
  [][(fallbackPolicy \in {"BUTTON_ONLY", "NEVER"} /\ ~portalActive /\ portalActive')
       => (OpenPortal \/ (RunHold /\ outcome' = "portal"))]_vars

\* C15 witness: under BUTTON_ONLY or NEVER with a credential stored, the attempt of
\* run() and two reconnection attempts have failed and the portal is closed.
C15_Witness ==
  /\ fallbackPolicy \in {"BUTTON_ONLY", "NEVER"} /\ pc = "loop" /\ btnFrom = btnTo
  /\ HasCredential /\ ~connected /\ streak >= 2 /\ now >= 2000 + 15000 + 5000 + 5000
  /\ ~portalActive

\* C16: under ON_FAIL the portal is open after every failed attempt.  Whenever the
\* attempt of run() fails, and whenever an attempt of
\* reintentarConexionSiNecesario() fails, under ON_FAIL, the portal is active
\* afterwards, with or without a stored credential.
C16_OnFailOpens ==
  /\ [][(RunConnect /\ fallbackPolicy = "ON_FAIL" /\ ~connected') => portalActive']_vars
  /\ [][(FailedAttempt /\ fallbackPolicy = "ON_FAIL") => portalActive']_vars

\* C17: timing floors.  In every reachable state reconnectBackoffMs >= 1000 and
\* reconnectAttemptMs >= 1000; setReconnectBackoffMs(ms) and setReconnectAttemptMs(ms)
\* store exactly 1000 for an argument below 1000 (0 and 999 included) and store an
\* argument of 1000 or more unchanged.
C17_TimingFloors ==
  /\ [](reconnectBackoffMs >= 1000 /\ reconnectAttemptMs >= 1000)
  /\ [][\A ms \in TimingArgs :
          /\ SetReconnectBackoffMsWith(ms)
                => reconnectBackoffMs' = IF ms < 1000 THEN 1000 ELSE ms
          /\ SetReconnectAttemptMsWith(ms)
                => reconnectAttemptMs' = IF ms < 1000 THEN 1000 ELSE ms]_vars

\* C17 witness: both setters have been called with arguments that left the floor in
\* place, the last of them with 999.
C17_Witness == lastArg = 999 /\ reconnectBackoffMs = 1000 /\ reconnectAttemptMs = 1000

\* C19: a failed attempt is never fatal and is retried.  With autoReconnect enabled,
\* a credential in memory and loop() calling reintentarConexionSiNecesario()
\* continuously, under every fallback policy and whether or not the portal is active:
\* a call that returned at the backoff check while the link is down is followed by a
\* new attempt (or by the link coming up), and once the network is in reach and stays
\* so the manager eventually reports connected.
C19_RetriedForever ==
  /\ (skipped /\ ~linkUp /\ ssid # "" /\ password # "" /\ now <= RetryQuietFrom)
        ~> (~skipped \/ linkUp)
  /\ (netUp /\ ssid # "" /\ password # "") ~> (connected /\ linkUp)

\* C19 witness: under SMART_RETRIES three attempts failed and opened the portal, the
\* network then came in reach, and the attempt that followed, made with the portal
\* active, connected.
C19_Witness ==
  /\ fallbackPolicy = "SMART_RETRIES" /\ portalActive /\ wifiMode = "AP_STA"
  /\ netUp /\ connected /\ linkUp /\ streak = 0 /\ lastAttemptAt >= 40000

\* The files of the store in the current state.
Stored == files \cup (IF wifiJson # "absent" THEN {WifiPath} ELSE {})

\* The file f is protected by a name given to setProtectedJsons: its path equals the
\* name, both with a leading '/', whatever the case of the letters.
ProtectedByGiven(f) ==
  \E i \in 1 .. Len(givenNames) :
    /\ givenNames[i] # << >>
    /\ equalsIgnoreCase(withSlash(f), withSlash(givenNames[i]))

\* C20: erase respects the protected-name set.  eraseCredentials() removes no file
\* protected by a name given to setProtectedJsons (given with or without the leading
\* '/'), and removes every other file under the root whose name ends in ".json".
C20_EraseRespectsProtected ==
  [][EraseCredentials
       => \A f \in Stored :
            /\ ProtectedByGiven(f) => f \in (Stored)'
            /\ (~ProtectedByGiven(f) /\ endsWith(f, JsonExt)) => f \notin (Stored)']_vars

\* C20 restricted to the ESP32 build.
C20_OnEsp32 ==
  [][(EraseCredentials /\ platform = "ESP32")
       => \A f \in Stored :
            /\ ProtectedByGiven(f) => f \in (Stored)'
            /\ (~ProtectedByGiven(f) /\ endsWith(f, JsonExt)) => f \notin (Stored)'
            /\ ~endsWith(f, JsonExt) => f \in (Stored)']_vars

\* C21: MEDIUM gesture feedback is distinct while held.  When the hold loop of run()
\* has ended after a hold measured at 3000 ms or more (so that at least 1000 ms of
\* it, a whole BLINK_DOUBLE cycle, lay between 2000 and 5000 ms), the LED pin has
\* changed level on some pass made in that part of the hold.
C21_MediumFeedbackDistinct ==
  (pc \in {"connect", "loop", "restarted"} /\ heldMs >= 3000) => mediumFlip

\* The hold loop of run() has just ended by a release measured in the MEDIUM band.
MediumRelease == RunHold /\ pc' \in {"connect", "loop"} /\ heldMs' >= 2000 /\ heldMs' < 5000

\* C22: a MEDIUM hold requests portal-open at release if and only if allowButtonPortal
\* is enabled.  Enabled: run() makes one portal request, the portal is active, and
\* run() has returned without a connection attempt.  Disabled: the release makes no
\* portal request and changes no portal state, the LED is back in automatic mode with
\* pattern OFF, and run() goes on to the connection attempt, which applies the
\* fallback policy as it does without a press.
C22_MediumIffAllowed ==
  /\ [][MediumRelease =>
          IF allowButtonPortal
          THEN /\ pc' = "loop" /\ outcome' = "portal" /\ nStartPortal' = 1
               /\ portalActive' /\ nBegin' = 0 /\ ~connected'
          ELSE /\ pc' = "connect" /\ outcome' = "none" /\ nStartPortal' = 0
               /\ portalActive' = portalActive /\ nBegin' = 0
               /\ ledAuto' /\ ledPat' = "OFF"]_vars
  /\ [][(RunConnect /\ btnFrom < btnTo /\ heldMs >= 2000 /\ heldMs < 5000)
          => LET due == \/ fallbackPolicy = "ON_FAIL" /\ ~connected'
                        \/ fallbackPolicy = "NO_CREDENTIALS_ONLY" /\ ~HasCredential
             IN /\ ~allowButtonPortal
                /\ nStartPortal' = IF due THEN 1 ELSE 0
                /\ due => portalActive'
                /\ (HasCredential => nBegin' = 1)]_vars

\* C22 witness: after a MEDIUM hold with the button portal disabled run() opened no
\* portal, made its connection attempt and connected.
C22_Witness ==
  /\ pc = "loop" /\ btnFrom < btnTo /\ heldMs >= 2000 /\ heldMs < 5000
  /\ ~allowButtonPortal /\ outcome = "none" /\ ~portalActive
  /\ nBegin = 1 /\ nStartPortal = 0 /\ connected

\* C23: LONG gesture.  The first poll of the hold loop of run() that reads the button
\* held with held >= 5000 ms erases the credentials and then restarts the device,
\* without waiting for the release (no pass of the hold loop starts with held beyond
\* 5000 ms); the restart is the end of the cycle: no step follows it, so the button is
\* not read again, and that poll has made no portal request and no connection attempt.
C23_LongErasesAndRestarts ==
  /\ [][(RunHold /\ btnFrom <= now /\ now < btnTo /\ now - t0 >= 5000)
          => /\ pc' = "restarted" /\ outcome' = "erase" /\ wifiJson' = "absent"
             /\ nStartPortal' = 0 /\ nBegin' = 0
             /\ portalActive' = portalActive /\ wifiMode' = wifiMode]_vars
  /\ [][pc # "restarted"]_vars
  /\ [](pc = "hold" => now - t0 <= 5000)

\* C23 witness: the device has restarted after the erase while the button is still
\* held; the credential loaded by begin() is gone from the file store.
C23_Witness ==
  /\ pc = "restarted" /\ outcome = "erase" /\ now < btnTo /\ heldMs = 5000
  /\ ssid # "" /\ wifiJson = "absent" /\ nBegin = 0 /\ nStartPortal = 0

\* No poll of the arming window of run() (every 10 ms during the 2000 ms that follow
\* startTime) reads the button down.
NoPollSeesPress ==
  \A k \in 0 .. 199 : ~(btnFrom <= startTime + (10 * k) /\ startTime + (10 * k) < btnTo)

\* The world with the button released.
Released(w) == [w EXCEPT !.btnFrom = 0, !.btnTo = 0]

\* The next state is the world v, but for the button.
SameButButton(v) == Assign([v EXCEPT !.btnFrom = btnFrom, !.btnTo = btnTo])

\* C24: arming window.  When no poll of the first 2000 ms of run() reads the button
\* down, no gesture occurs: run() never enters the hold loop, measures no hold, and
\* the button causes neither a portal-open nor an erase; and the rest of run() (the
\* connection attempt and the fallback policy) and every update() of loop() leave the
\* state they would leave with the button released, whatever the button does.
C24_ArmingWindow ==
  /\ [](NoPollSeesPress => (pc \notin {"hold", "restarted"} /\ outcome = "none" /\ heldMs = 0))
  /\ [][\A d \in LinkDelays, synced \in BOOLEAN :
          RunConnectWith(d, synced) => SameButButton(runConnect(Released(Cur), d, synced))]_vars
  /\ [][LoopUpdate => SameButButton(update(Released(Cur), "none", TRUE))]_vars

\* C24 witness: the button went down after the arming window and is still down while
\* loop() runs; run() has connected and no gesture has occurred.
C24_Witness ==
  /\ pc = "loop" /\ passes >= 2 /\ btnFrom >= startTime + 2000 /\ btnFrom <= now
  /\ now < btnTo /\ outcome = "none" /\ heldMs = 0 /\ connected /\ ~portalActive

\* The pattern the priority order gives: scan in progress or in its grace period,
\* then the portal (active: act), then the link (connected: up), then OFF.
Derived(scan, act, up) ==
  IF scan THEN "BLINK_FAST" ELSE IF act THEN "BLINK_SLOW" ELSE IF up THEN "ON" ELSE "OFF"

\* C25, as stated: automatic indicator priority.  With ledAuto enabled, after every
\* update() the LED pattern is the one the priority order gives for the state update()
\* leaves, and the phase (ledStep, ledT0) is reset only on ticks that change the pattern.
C25_Original ==
  [][((IndUpdate \/ IndScan) /\ ledAuto)
       => /\ ledPat' = Derived(scanning' \/ now' < scanningUntil', portalActive', linkUp')
          /\ ledPat' = ledPat => (ledStep' = ledStep /\ ledT0' = ledT0)
          /\ ledPat' # ledPat => (ledStep' = 0 /\ ledT0' = now')]_vars

\* C25, amended: the pattern after update() is the one the priority order gives for
\* the scan state update() leaves and for the portal and link state it found: the
\* derivation runs after the request handlers and before the timeout check, so the
\* tick whose timeout check closes the portal still shows the portal's pattern.  The
\* phase is reset only on ticks that change the pattern.
C25_IndicatorPriority ==
  [][((IndUpdate \/ IndScan) /\ ledAuto)
       => /\ ledPat' = Derived(scanning' \/ now' < scanningUntil', portalActive, linkUp)
          /\ ledPat' = ledPat => (ledStep' = ledStep /\ ledT0' = ledT0)
          /\ ledPat' # ledPat => (ledStep' = 0 /\ ledT0' = now')]_vars

\* C25 witness: the update() that closed the portal by timeout has left the portal's
\* pattern on a portal that is no longer active.
C25_Witness ==
  /\ ticked /\ ledAuto /\ portalTimeoutMs > 0 /\ now - portalStart > portalTimeoutMs
  /\ ~portalActive /\ ledPat = "BLINK_SLOW"

\* C26: post-scan grace period.  With ledAuto enabled, the update() that serves a scan
\* leaves the pattern BLINK_FAST with part of the grace period still to run, whatever
\* time the scan took, and every update() made before the grace period ends leaves
\* the pattern BLINK_FAST.
C26_PostScanGrace ==
  /\ [][(IndScan /\ ledAuto) => (ledPat' = "BLINK_FAST" /\ now' < scanningUntil')]_vars
  /\ [][(IndUpdate /\ ledAuto /\ now < scanningUntil) => ledPat' = "BLINK_FAST"]_vars

\* C27: manual override freezes the pattern.  While the LED is in manual mode, every
\* step other than a call of setLedPatternManual() or setLedAuto(true) (update(),
\* openPortal(), closePortal(), forzarReconexion(), a served request, the passage of
\* time) leaves the LED in manual mode with the pattern it had.
C27_ManualFreezes ==
  [][(~ledAuto /\ ~SetLedPatternManual /\ ~SetLedAuto) => (~ledAuto' /\ ledPat' = ledPat)]_vars

\* The level of BLINK_DOUBLE and of BLINK_TRIPLE at ph ms after the pattern's
\* selection: HIGH 120, LOW 120, HIGH 120, LOW 640; HIGH 100, LOW 100, HIGH 100,
\* LOW 100, HIGH 100, LOW 500.  Both repeat every 1000 ms.
DoubleLevel(ph) ==
  IF (ph % 1000) < 120 \/ ((ph % 1000) >= 240 /\ (ph % 1000) < 360) THEN HIGH ELSE LOW

TripleLevel(ph) ==
  IF (ph % 1000) < 500 /\ ((ph % 1000) \div 100) % 2 = 0 THEN HIGH ELSE LOW

\* C28: BLINK_DOUBLE and BLINK_TRIPLE are repeating fixed step sequences starting at
\* pattern selection.  With ledTask() run every 10 ms, whenever ledTask() has run at
\* the current time the LED pin has the level the sequence gives for the time since
\* the pattern was selected, whatever level the pin had before.
C28_StepSequences ==
  /\ [](ticked /\ ledPat = "BLINK_DOUBLE" => ledPin = DoubleLevel(now - selectedAt))
  /\ [](ticked /\ ledPat = "BLINK_TRIPLE" => ledPin = TripleLevel(now - selectedAt))

\* C29: no redundant pin writes.  Over every sequence of ledTask() calls and pattern
\* changes that follows begin(), digitalWrite is never issued on the LED pin with the
\* level the pin already has, and the cached level ledOut is the level of the pin.
C29_NoRedundantWrites == ledOut = ledPin /\ ~redundantWrite

\* C29 witness: the pattern has been ON for several calls of ledTask(); the pin was
\* written HIGH once and not again.
C29_Witness ==
  /\ ticked /\ ledPat = "ON" /\ now - selectedAt >= 30 /\ ledPin = HIGH /\ ledOut = HIGH
  /\ ~redundantWrite

\* C30: SMART_RETRIES opens the portal only on failures that fall inside one window.
\* reintentarConexionSiNecesario() requests the portal only at a failed attempt under
\* SMART_RETRIES that is the maxFailRetries-th counted since failWindowStart and
\* comes no more than failWindowMs after it, and it then resets the window.  A
\* failure counts into the running window only while no more than failWindowMs have
\* passed since failWindowStart; a later one (or one with no window running) starts a
\* new window at its own time and counts as its first failure, with no portal
\* request.  Under any other policy a failure leaves failCount and failWindowStart
\* unchanged and requests no portal.
C30_FailuresInOneWindow ==
  /\ [][(Reintentar /\ nStartPortal' > 0)
          => /\ fallbackPolicy = "SMART_RETRIES" /\ nAttempt' = 1 /\ ~connected'
             /\ failCount = maxFailRetries - 1 /\ failWindowStart # 0
             /\ now' - failWindowStart <= failWindowMs
             /\ nStartPortal' = 1 /\ failCount' = 0 /\ failWindowStart' = 0]_vars
  /\ [][(FailedAttempt /\ fallbackPolicy = "SMART_RETRIES")
          => IF failWindowStart # 0 /\ now' - failWindowStart <= failWindowMs
             THEN \/ /\ failCount + 1 < maxFailRetries /\ nStartPortal' = 0
                     /\ failCount' = failCount + 1 /\ failWindowStart' = failWindowStart
                  \/ /\ failCount + 1 = maxFailRetries /\ nStartPortal' = 1
             ELSE /\ nStartPortal' = 0 /\ failCount' = 1 /\ failWindowStart' = now']_vars
  /\ [][(FailedAttempt /\ fallbackPolicy # "SMART_RETRIES")
          => /\ nStartPortal' = 0 /\ failCount' = failCount
             /\ failWindowStart' = failWindowStart]_vars
  /\ [](failCount > 0 => (failWindowStart # 0 /\ failCount < maxFailRetries))

\* C30 witness: two failures had been counted when a failure came more than
\* failWindowMs after the window start; it opened no portal and is the first failure
\* of a new window.
C30_Witness ==
  /\ fallbackPolicy = "SMART_RETRIES" /\ streak = 3 /\ now - streakT0 > failWindowMs
  /\ failCount = 1 /\ failWindowStart = now /\ nStartPortal = 0 /\ ~portalActive

\* C31: opening an inactive portal starts a fresh inactivity window.  openPortal() on
\* an inactive portal, whether or not a portal was open before, leaves portalActive
\* set and portalStart = lastHttpAccess = the current time; and an update() made
\* while neither timestamp is older than the timeout does not close the portal, so
\* the first update() after the open cannot time out on older timestamps.
C31_FreshWindow ==
  /\ [][(OpenPortal /\ ~portalActive)
          => (portalActive' /\ portalStart' = now /\ lastHttpAccess' = now /\ now' = now)]_vars
  /\ [][(Update /\ portalActive /\ now - portalStart <= portalTimeoutMs
            /\ now - lastHttpAccess <= portalTimeoutMs) => portalActive']_vars

\* C31 witness: a portal opened later than one timeout after boot is active, both
\* timestamps are the time of the open, and the clock has moved on since.
C31_Witness ==
  /\ portalActive /\ portalTimeoutMs > 0 /\ portalStart > portalTimeoutMs
  /\ lastHttpAccess = portalStart /\ now > portalStart /\ wifiMode = "AP"

\* C32: while the portal is active the access point stays up.  In every reachable
\* state with portalActive set the radio mode includes the access point (AP or
\* AP_STA): no operation selects STA or OFF and leaves portalActive set.
C32_PortalKeepsAp == portalActive => wifiMode \in {"AP", "AP_STA"}

\* C33: the reconnection driver never opens the portal for a device without
\* credentials.  With no credential in memory reintentarConexionSiNecesario() makes
\* no attempt, counts no failure and requests no portal under any policy; and under
\* SMART_RETRIES a device without credentials gets an active portal only from
\* openPortal() or from a MEDIUM hold in run().
C33_NoPortalWithoutCredential ==
  /\ [][((ssid = "" \/ password = "") /\ PoReintentar)
          => (/\ nAttempt' = 0 /\ nBegin' = 0 /\ nStartPortal' = 0
              /\ UNCHANGED << failCount, failWindowStart, streak, portalActive, wifiMode,
                              beginIssued, lastAttemptAt >>)]_vars
  /\ [][(~portalActive /\ portalActive' /\ (ssid = "" \/ password = "")
            /\ fallbackPolicy = "SMART_RETRIES")
          => (PoOpenPortal \/ (RunHold /\ outcome' = "portal"))]_vars

\* C33 witness: under SMART_RETRIES, without credentials, the driver has run past its
\* backoff in loop() and has attempted nothing; the portal is closed.
C33_Witness ==
  /\ fallbackPolicy = "SMART_RETRIES" /\ (ssid = "" \/ password = "") /\ pc = "loop"
  /\ ultimoIntentoWiFi >= 10000 /\ lastAttemptAt = -1 /\ failCount = 0
  /\ ~portalActive /\ ~beginIssued

\* A pass of loop() whose update() served a request that refreshes lastHttpAccess,
\* with the portal open and the web-client check set.
ServedTick == portalActive /\ webClientCheck /\ (ServeRootWith(TRUE) \/ IndScan)

\* C34 as stated: request handling precedes the timeout check, so an update() that served
\* a request leaves the portal open.
C34_Original == [][ServedTick => portalActive']_vars

\* C34: within one update() the request is handled before the timeout is evaluated.
\* With webClientCheck set, an update() that serves a request stamps lastHttpAccess
\* with the time the handler began, and closes the portal only if the handler itself
\* ran for longer than the timeout; time elapsed before the tick never closes it.
C34_HandlingBeforeTimeout ==
  [][ServedTick => (/\ lastHttpAccess' = now
                    /\ portalActive' \/ (portalTimeoutMs > 0 /\ now' - now > portalTimeoutMs))]_vars

\* C34 witness: with a timeout set, the portal is open longer than the timeout after it
\* was opened, in the state left by an update() that served a request at this instant.
C34_Witness ==
  /\ portalActive /\ webClientCheck /\ portalTimeoutMs > 0
  /\ lastHttpAccess = now /\ now - portalStart > portalTimeoutMs
  /\ ~scanning /\ scanningUntil = 0

\* C35: run() always terminates.  Whatever the button and the network do, a run() that
\* has been called returns (the sketch goes on to loop()) or restarts the device; the
\* arming loop runs for no more than 2000 ms and the hold loop for no more than
\* 5000 ms; and a button still down 5000 ms after the press was seen ends in the restart.
C35_RunTerminates ==
  /\ (pc \in {"arming", "hold", "connect"}) ~> (pc \in {"loop", "restarted"})
  /\ (pc = "hold" /\ btnTo > t0 + 5000) ~> (pc = "restarted")
  /\ [](pc = "arming" => now - startTime <= 2000)
  /\ [](pc = "hold" => now - t0 <= 5000)

\* C35 witness: the button was held past the threshold and run() ended in the restart
\* with the button still down.
C35_Witness == pc = "restarted" /\ heldMs = 5000 /\ now < btnTo

\* C36: with autoReconnect disabled reintentarConexionSiNecesario() does nothing.  A
\* call made while the flag is off issues no attempt and no WiFi.begin() and leaves
\* connected, ultimoIntentoWiFi, failCount, failWindowStart, portalActive and the radio
\* mode as they were, whatever the link, the policy and the time since the last attempt.
C36_DisabledDoesNothing ==
  [][(CoReintentar /\ ~autoReconnect)
      => (/\ nAttempt' = 0 /\ nBegin' = 0 /\ nStartPortal' = 0
          /\ UNCHANGED << connected, ultimoIntentoWiFi, failCount, failWindowStart,
                          portalActive, wifiMode, linkUp, beginIssued, now,
                          lastAttemptAt, skipped >>)]_vars

\* C36 witness: the flag is off, a credential is stored, the link is down and the
\* backoff has elapsed since the forced reconnection; the driver was the last entry
\* point called (the counters of the call are clear) and it neither attempted, nor
\* skipped for backoff, nor noted the link.
C36_Witness ==
  /\ ~autoReconnect /\ HasCredential /\ ~linkUp /\ ~connected
  /\ beginIssued /\ nBegin = 0 /\ lastAttemptAt = -1 /\ ~skipped
  /\ now - ultimoIntentoWiFi >= reconnectBackoffMs
  /\ fallbackPolicy = "SMART_RETRIES"

\* C37: the failure counter stays below the threshold.  With the threshold set in
\* setup() (1 or more) and left alone, failCount < maxFailRetries in every state
\* between two calls, and failCount = 0 whenever no window is running
\* (failWindowStart = 0); the 8-bit counter never reaches its wrap.
C37_CountBelowThreshold ==
  /\ maxFailRetries >= 1
  /\ failCount < maxFailRetries /\ failCount < 255
  /\ failWindowStart = 0 => failCount = 0

\* C37 witness: with a threshold of 2, the second failure in a row opened the portal
\* and cleared the counter, and the third is counted in a new window: the counter is
\* one below the threshold.
C37_Witness ==
  /\ fallbackPolicy = "SMART_RETRIES" /\ maxFailRetries = 2
  /\ failCount = 1 /\ failWindowStart > 0 /\ streak >= 3 /\ portalActive

\* C38: the DNS catch-all runs only while the portal is active.  In every reachable
\* state dnsRunning implies portalActive, so every stopPortal() leaves dnsRunning
\* FALSE, also when setCaptivePortal() changed the flag while the portal was open.
C38_DnsOnlyWithPortal == dnsRunning => portalActive

\* C38 witness: the portal was opened with the captive DNS, and the flag was switched
\* off while it is open: the DNS still runs, and the next stopPortal() has to stop it.
C38_Witness == portalActive /\ dnsRunning /\ ~captiveEnabled /\ serverUp

\* C39: the LED step index stays inside the step table of the current pattern.  In
\* every reachable state ledStep < 4 under BLINK_DOUBLE and ledStep < 6 under
\* BLINK_TRIPLE, however pattern changes and ledTask() ticks interleave.
C39_StepInsideTable ==
  /\ ledStep >= 0
  /\ ledPat = "BLINK_DOUBLE" => ledStep < Len(seqDouble)
  /\ ledPat = "BLINK_TRIPLE" => ledStep < Len(seqTriple)

\* C39 witness: BLINK_DOUBLE, selected some time after boot in place of another
\* pattern, has been stepped by ledTask() to the last entry of its table.
C39_Witness == ledPat = "BLINK_DOUBLE" /\ ledStep = 3 /\ selectedAt >= 500 /\ ticked

====
